---- MODULE Spec2Model ----
(***************************************************************************)
(* A model of the skitter interpreter core: the monomorphization cache     *)
(* and bytecode publication (items.rs, vm/vm.rs), trait resolution         *)
(* (items.rs) and the bytecode compiler with its slot stack                *)
(* (bytecode_compiler.rs), together with the byte-level execution of the   *)
(* bytecode it emits.                                                      *)
(*                                                                         *)
(* The parts have separate specifications (SpecMono, SpecTrait,            *)
(* SpecCompile, SpecLower); each leaves the variables of the others at     *)
(* their initial values.                                                   *)
(***************************************************************************)
EXTENDS Integers, Sequences, FiniteSets, TLC

(***************************************************************************)
(* Types and substitution lists (types.rs is not part of the sources; the  *)
(* representation follows spec section 3).  A type is a tuple whose head   *)
(* is its kind.  A substitution list is a sequence of types.               *)
(***************************************************************************)
IntTy == <<"Int", 4>>
U8Ty == <<"Int", 1>>
BoolTy == <<"Bool">>
ParamTy(n) == <<"Param", n>>
RefTy(t, m) == <<"Ref", t, m>>
TupleTy(ts) == <<"Tuple", ts>>
ArrayTy(t) == <<"Array", t>>
AdtTy(item, subs) == <<"Adt", item, subs>>

RECURSIVE ty_is_concrete(_)
ty_is_concrete(t) ==
    CASE t[1] = "Param" -> FALSE
      [] t[1] \in {"Ref", "Array"} -> ty_is_concrete(t[2])
      [] t[1] = "Tuple" -> \A i \in DOMAIN t[2] : ty_is_concrete(t[2][i])
      [] t[1] = "Adt" -> \A i \in DOMAIN t[3] : ty_is_concrete(t[3][i])
      [] OTHER -> TRUE

\* SubList::is_concrete: no type-parameter placeholder anywhere in the list.
is_concrete(subs) == \A i \in DOMAIN subs : ty_is_concrete(subs[i])

(***************************************************************************)
(* Bounds of the monomorphization model.                                   *)
(***************************************************************************)
NumThreads == 2
MaxCalls == 4

Threads == 1..NumThreads
ItemSources == {[kind |-> "Item", id |-> 1]}
ClosureSources == {[kind |-> "Closure", id |-> 1]}
Sources == ItemSources \cup ClosureSources
MonoSubLists == {<<IntTy>>, <<ParamTy(0)>>}
Null == 0

VARIABLES
    mono_instances,   \* per source: substitution list -> Function handle, or Null
    mono_lock,        \* per source: the thread holding the map's mutex, or Null
    arena_functions,  \* the allocated Functions; a handle is an index
    arena_bytecode,   \* the allocated bytecode vectors; a pointer is an index
    thr,              \* per thread: position and locals of its current call
    mono_returns,     \* every <<source, subs, handle>> func_mono has returned
    bc_returns,       \* every <<handle, vector>> Function::bytecode has returned
    calls             \* the number of calls the threads have started

mono_vars == <<mono_instances, mono_lock, arena_functions, arena_bytecode, thr,
               mono_returns, bc_returns, calls>>

VARIABLES
    impl_list,   \* per trait item: the sequence of its TraitImpls
    trait_res    \* the last find_trait_impl call: its query and its outcome

trait_vars == <<impl_list, trait_res>>

VARIABLES
    cfunc,   \* the IR function last handed to BytecodeCompiler::compile
    comp,    \* the compiler state that compile ended in (its out_bc is the result)
    vmt      \* the thread running the compiled function: status, pc, frame memory

compile_vars == <<cfunc, comp, vmt>>

VARIABLES
    lowered,   \* an expression lowered on its own, with and without a destination
    matched,   \* a pattern matched on its own: the code emitted and the result
    called     \* a call built on its own: the caller's frame and the callee's

lower_vars == <<lowered, matched, called>>

VARIABLES
    closure,      \* a Closure: its base IR and the IR of each Fn trait, once set
    closure_res   \* the last ir_for_trait request and its outcome

closure_vars == <<closure, closure_res>>

VARIABLES
    chan,       \* the channel to the worker: the commands sent and not yet received
    sent,       \* every command sent, in the order of the sends
    executed,   \* the commands whose function the worker has run, in that order
    results,    \* per command its WorkerResult: the value and the barrier
    wk,         \* the worker thread: where it is and the command it holds
    submitter,  \* per submitting thread: where it is and the result it was handed
    item_ir     \* per item: whether its IR has been set

worker_vars == <<chan, sent, executed, results, wk, submitter, item_ir>>

VARIABLES
    the_item,   \* the item: its cached IR, the mutex around it, its cached AdtInfo
    builds,     \* how often build_ir and build_adt have been invoked
    req,        \* per thread: where it is in Item::ir or Item::adt_info
    observed,   \* the <<kind, value>> pairs the requests have returned
    requests    \* the number of requests started

item_vars == <<the_item, builds, req, observed, requests>>

VARIABLES
    cs,        \* a compiler whose slot stack is operated on directly
    cs_last,   \* the last operation on it: its arguments and what it returned
    cs_ops     \* the number of operations so far

stack_vars == <<cs, cs_last, cs_ops>>

VARIABLES
    match_res   \* a unification on its own: the two types and the outcome

match_vars == <<match_res>>

VARIABLES
    closures,          \* per item: the Mutex-guarded map from path indices to closure ids
    next_closure_id,   \* VM::next_closure_id
    child_calls        \* the child_closure calls so far: item, path indices, id returned

child_vars == <<closures, next_closure_id, child_calls>>

VARIABLES
    const_lock,     \* per constant item: the thread that holds its mono_values mutex, or 0
    mono_values,    \* per constant item: the entries <<subs, bytes>> of its map
    const_thread,   \* per thread: its status and its stack of const_value calls
    const_evals,    \* the <<item, subs>> evaluated so far, in order
    const_returns   \* the <<item, subs, bytes>> the outermost calls have returned

const_vars == <<const_lock, mono_values, const_thread, const_evals, const_returns>>

VARIABLES
    flow_ir,     \* the IR function handed to BytecodeCompiler::compile
    flow_comp,   \* the compiler state compile ended in
    flow_vm      \* the thread running the code: status, pc, memory, the pcs visited

flow_vars == <<flow_ir, flow_comp, flow_vm>>

vars == <<mono_vars, trait_vars, compile_vars, lower_vars, closure_vars, worker_vars, item_vars, stack_vars, match_vars, child_vars, const_vars, flow_vars>>

\* What the actions of one part of the program leave alone.
not_mono_vars == <<trait_vars, compile_vars, lower_vars, closure_vars, worker_vars, item_vars, stack_vars, match_vars, child_vars, const_vars, flow_vars>>
not_trait_vars == <<mono_vars, compile_vars, lower_vars, closure_vars, worker_vars, item_vars, stack_vars, match_vars, child_vars, const_vars, flow_vars>>
not_compile_vars == <<mono_vars, trait_vars, lower_vars, closure_vars, worker_vars, item_vars, stack_vars, match_vars, child_vars, const_vars, flow_vars>>
not_lower_vars == <<mono_vars, trait_vars, compile_vars, closure_vars, worker_vars, item_vars, stack_vars, match_vars, child_vars, const_vars, flow_vars>>
not_closure_vars == <<mono_vars, trait_vars, compile_vars, lower_vars, worker_vars, item_vars, stack_vars, match_vars, child_vars, const_vars, flow_vars>>
not_worker_vars == <<mono_vars, trait_vars, compile_vars, lower_vars, closure_vars, item_vars, stack_vars, match_vars, child_vars, const_vars, flow_vars>>
not_item_vars == <<mono_vars, trait_vars, compile_vars, lower_vars, closure_vars, worker_vars, stack_vars, match_vars, child_vars, const_vars, flow_vars>>
not_stack_vars == <<mono_vars, trait_vars, compile_vars, lower_vars, closure_vars, worker_vars, item_vars, match_vars, child_vars, const_vars, flow_vars>>
not_match_vars == <<mono_vars, trait_vars, compile_vars, lower_vars, closure_vars, worker_vars, item_vars, stack_vars, child_vars, const_vars, flow_vars>>
not_child_vars == <<mono_vars, trait_vars, compile_vars, lower_vars, closure_vars, worker_vars, item_vars, stack_vars, match_vars, const_vars, flow_vars>>
not_const_vars == <<mono_vars, trait_vars, compile_vars, lower_vars, closure_vars, worker_vars, item_vars, stack_vars, match_vars, child_vars, flow_vars>>
not_flow_vars == <<mono_vars, trait_vars, compile_vars, lower_vars, closure_vars, worker_vars, item_vars, stack_vars, match_vars, child_vars, const_vars>>

IdleThread == [pc |-> "idle", source |-> Null, subs |-> <<>>, func |-> Null,
               bc |-> Null]

MonoInit ==
    /\ mono_instances = [s \in Sources |-> [l \in MonoSubLists |-> Null]]
    /\ mono_lock = [s \in Sources |-> Null]
    /\ arena_functions = <<>>
    /\ arena_bytecode = <<>>
    /\ thr = [t \in Threads |-> IdleThread]
    /\ mono_returns = {}
    /\ bc_returns = {}
    /\ calls = 0

(***************************************************************************)
(* Item::func_mono (items.rs 737-748) and the closure's func_mono.         *)
(* The map is behind a Mutex: lock, entry(subs).or_insert_with(alloc),     *)
(* unlock on return.                                                       *)
(***************************************************************************)
\* A lock() that does not exclude other holders.
LockAvailable_NoMutex(s) == TRUE

\* Mutex::lock succeeds only when no thread holds the mutex.
LockAvailable(s) == mono_lock[s] = Null

\* Item::func_mono is entered with any substitution list: it checks nothing.
CallFuncMono(t, s, l) ==
    /\ thr[t].pc = "idle"
    /\ calls < MaxCalls
    /\ calls' = calls + 1
    /\ s \in ItemSources
    /\ thr' = [thr EXCEPT ![t] = [IdleThread EXCEPT !.pc = "fm_lock",
                                     !.source = s, !.subs = l]]
    /\ UNCHANGED <<mono_instances, mono_lock, arena_functions, arena_bytecode,
                   mono_returns, bc_returns>>
    /\ UNCHANGED not_mono_vars

\* lower_expr, PointerCast::ClosureFnPointer: assert!(subs.is_concrete())
\* and then closure.func_mono(subs).
CastClosureFnPointer(t, s, l) ==
    /\ thr[t].pc = "idle"
    /\ calls < MaxCalls
    /\ calls' = calls + 1
    /\ s \in ClosureSources
    /\ thr' = [thr EXCEPT ![t] =
                 IF is_concrete(l)
                 THEN [IdleThread EXCEPT !.pc = "fm_lock", !.source = s, !.subs = l]
                 ELSE [IdleThread EXCEPT !.pc = "panicked"]]
    /\ UNCHANGED <<mono_instances, mono_lock, arena_functions, arena_bytecode,
                   mono_returns, bc_returns>>
    /\ UNCHANGED not_mono_vars

\* mono_instances.lock().unwrap()
FmLock(t) ==
    /\ thr[t].pc = "fm_lock"
    /\ LockAvailable(thr[t].source)
    /\ mono_lock' = [mono_lock EXCEPT ![thr[t].source] = t]
    /\ thr' = [thr EXCEPT ![t].pc = "fm_entry"]
    /\ UNCHANGED <<calls, mono_instances, arena_functions, arena_bytecode,
                   mono_returns, bc_returns>>
    /\ UNCHANGED not_mono_vars

\* .entry(subs.clone()): the lookup half of entry().or_insert_with().
FmEntry(t) ==
    /\ thr[t].pc = "fm_entry"
    /\ LET h == mono_instances[thr[t].source][thr[t].subs] IN
         thr' = [thr EXCEPT ![t].pc = IF h = Null THEN "fm_insert" ELSE "fm_unlock",
                            ![t].func = h]
    /\ UNCHANGED <<calls, mono_instances, mono_lock, arena_functions, arena_bytecode,
                   mono_returns, bc_returns>>
    /\ UNCHANGED not_mono_vars

\* VM::alloc_function: a new Function with no bytecode, pushed on the arena.
alloc_function(source, subs) ==
    Append(arena_functions, [source |-> source, subs |-> subs, bytecode |-> Null])

\* .or_insert_with(|| self.vm.alloc_function(self, subs.clone()))
FmInsert(t) ==
    /\ thr[t].pc = "fm_insert"
    /\ arena_functions' = alloc_function(thr[t].source, thr[t].subs)
    /\ mono_instances' = [mono_instances EXCEPT
                            ![thr[t].source][thr[t].subs] = Len(arena_functions')]
    /\ thr' = [thr EXCEPT ![t].pc = "fm_unlock", ![t].func = Len(arena_functions')]
    /\ UNCHANGED <<calls, mono_lock, arena_bytecode, mono_returns, bc_returns>>
    /\ UNCHANGED not_mono_vars

\* return result_func; the guard is dropped.
FmUnlock(t) ==
    /\ thr[t].pc = "fm_unlock"
    /\ mono_lock' = [mono_lock EXCEPT ![thr[t].source] =
                       IF @ = t THEN Null ELSE @]
    /\ mono_returns' = mono_returns \cup {<<thr[t].source, thr[t].subs, thr[t].func>>}
    /\ thr' = [thr EXCEPT ![t] = IdleThread]
    /\ UNCHANGED <<calls, mono_instances, arena_functions, arena_bytecode, bc_returns>>
    /\ UNCHANGED not_mono_vars

(***************************************************************************)
(* Function::get_bytecode / set_bytecode / bytecode (vm/vm.rs 307-340).    *)
(* bytecode() loops: acquire-load the pointer; if it is null, compile,     *)
(* allocate the vector in the arena, release-store the pointer, and load   *)
(* again.                                                                  *)
(***************************************************************************)
\* set_bytecode: self.bytecode.store(bc, Ordering::Release), unconditional.
set_bytecode(f, bc) == [arena_functions EXCEPT ![f].bytecode = bc]

\* get_bytecode: self.bytecode.load(Ordering::Acquire)
get_bytecode(f) == arena_functions[f].bytecode

\* VMThread::call -> func.bytecode(), on a Function handle obtained earlier.
CallBytecode(t, f) ==
    /\ thr[t].pc = "idle"
    /\ calls < MaxCalls
    /\ calls' = calls + 1
    /\ f \in DOMAIN arena_functions
    /\ thr' = [thr EXCEPT ![t] = [IdleThread EXCEPT !.pc = "bc_load", !.func = f]]
    /\ UNCHANGED <<mono_instances, mono_lock, arena_functions, arena_bytecode,
                   mono_returns, bc_returns>>
    /\ UNCHANGED not_mono_vars

\* if let Some(bc) = self.get_bytecode() { return bc; }
BcLoad(t) ==
    /\ thr[t].pc = "bc_load"
    /\ LET raw == get_bytecode(thr[t].func) IN
         IF raw # Null
         THEN /\ bc_returns' = bc_returns \cup {<<thr[t].func, raw>>}
              /\ thr' = [thr EXCEPT ![t] = IdleThread]
         ELSE /\ thr' = [thr EXCEPT ![t].pc = "bc_compile"]
              /\ UNCHANGED bc_returns
    /\ UNCHANGED <<calls, mono_instances, mono_lock, arena_functions, arena_bytecode,
                   mono_returns>>
    /\ UNCHANGED not_mono_vars

\* BytecodeCompiler::compile(..) and vm.alloc_bytecode(bc): a fresh vector.
BcCompile(t) ==
    /\ thr[t].pc = "bc_compile"
    /\ arena_bytecode' = Append(arena_bytecode, [func |-> thr[t].func])
    /\ thr' = [thr EXCEPT ![t].pc = "bc_store", ![t].bc = Len(arena_bytecode')]
    /\ UNCHANGED <<calls, mono_instances, mono_lock, arena_functions,
                   mono_returns, bc_returns>>
    /\ UNCHANGED not_mono_vars

\* self.set_bytecode(bc_ref); then the loop runs again.
BcStore(t) ==
    /\ thr[t].pc = "bc_store"
    /\ arena_functions' = set_bytecode(thr[t].func, thr[t].bc)
    /\ thr' = [thr EXCEPT ![t].pc = "bc_load"]
    /\ UNCHANGED <<calls, mono_instances, mono_lock, arena_bytecode,
                   mono_returns, bc_returns>>
    /\ UNCHANGED not_mono_vars

MonoNext ==
    \E t \in Threads :
        \/ \E s \in Sources, l \in MonoSubLists : CallFuncMono(t, s, l)
        \/ \E s \in Sources, l \in MonoSubLists : CastClosureFnPointer(t, s, l)
        \/ FmLock(t)
        \/ FmEntry(t)
        \/ FmInsert(t)
        \/ FmUnlock(t)
        \/ \E f \in DOMAIN arena_functions : CallBytecode(t, f)
        \/ BcLoad(t)
        \/ BcCompile(t)
        \/ BcStore(t)


(***************************************************************************)
(* Claims about the monomorphization cache and bytecode publication.       *)
(***************************************************************************)
\* C1: all calls to func_mono(I, S), repeated or concurrent and interleaved
\* with calls for other lists, return the same Function handle, and at most
\* one Function is ever allocated per (I, S).
C1_MonoSameHandle ==
    /\ \A r1 \in mono_returns : \A r2 \in mono_returns :
          (r1[1] = r2[1] /\ r1[2] = r2[2]) => r1[3] = r2[3]
    /\ \A f1 \in DOMAIN arena_functions : \A f2 \in DOMAIN arena_functions :
          (/\ arena_functions[f1].source = arena_functions[f2].source
           /\ arena_functions[f1].subs = arena_functions[f2].subs) => f1 = f2

\* A second call for an (I, S) that has already returned a handle finds that
\* handle in the map, after a Function for another list was allocated too.
C1_Witness ==
    \E t \in Threads : \E r \in mono_returns :
        /\ thr[t].pc = "fm_unlock"
        /\ thr[t].source = r[1] /\ thr[t].subs = r[2] /\ thr[t].func = r[3]
        /\ Len(arena_functions) >= 2

\* C2: a Function's bytecode is written at most once, so once get_bytecode()
\* has returned a vector V every later get_bytecode() on that Function
\* returns the same V.
C2_BytecodeStable ==
    \A r1 \in bc_returns : \A r2 \in bc_returns :
        r1[1] = r2[1] => r1[2] = r2[2]

\* C3: a Function handle is allocated only for a fully concrete substitution
\* list; a request with a non-concrete list allocates no handle.
C3_HandlesConcrete ==
    \A f \in DOMAIN arena_functions : is_concrete(arena_functions[f].subs)

(***************************************************************************)
(* Trait resolution (items.rs 1106-1336).                                  *)
(*                                                                         *)
(* A TraitImpl is [for_types, bounds, generics, assoc_values]: generics is *)
(* the number of type parameters of the impl, assoc_values the sequence of *)
(* associated types indexed by member index.  A bound is                   *)
(*   [kind |-> "Trait", item, subs]            BoundKind::Trait            *)
(*   [kind |-> "Projection", item, member, subs, eq_ty]                    *)
(*                                             BoundKind::Projection       *)
(* where item is the trait (for a projection: the trait that declares the  *)
(* associated type, member its member index).                              *)
(***************************************************************************)
MaxImpls == 2

BaseTrait == "Base"
DerivedTrait == "Derived"
TraitIds == {BaseTrait, DerivedTrait}

\* The traits tagged as builtin: the tag is the BuiltinTrait.
SizedTrait == "Sized"
TupleTrait == "Tuple"
BuiltinTraitIds == {SizedTrait, TupleTrait}
AllTraitIds == TraitIds \cup BuiltinTraitIds

\* The outcome of a call that terminates the process (panic!, a failed
\* assert!).
Panic == [tag |-> "Panic"]
None == [tag |-> "None"]

\* Type::sub: parameter n is replaced by element n of the list (types.rs is
\* not part of the sources; spec section 3).  A missing element is fatal,
\* which the callers below never cause.
RECURSIVE ty_sub(_, _)
ty_sub(t, subs) ==
    CASE t[1] = "Param" -> subs[t[2] + 1]
      [] t[1] = "Ref" -> <<"Ref", ty_sub(t[2], subs), t[3]>>
      [] t[1] = "Array" -> <<"Array", ty_sub(t[2], subs)>>
      [] t[1] = "Slice" -> <<"Slice", ty_sub(t[2], subs)>>
      [] t[1] = "Tuple" -> <<"Tuple", [i \in DOMAIN t[2] |-> ty_sub(t[2][i], subs)]>>
      [] t[1] = "Adt" -> <<"Adt", t[2], [i \in DOMAIN t[3] |-> ty_sub(t[3][i], subs)]>>
      [] OTHER -> t

\* SubList::sub
subs_sub(l, subs) == [i \in DOMAIN l |-> ty_sub(l[i], subs)]

\* SubList::from_summary: one placeholder per type parameter of the impl.
from_summary(generics) == [i \in 1..generics |-> ParamTy(i - 1)]

\* SubMap::set (items.rs 1206-1216): an existing key asserts the same value.
SubMap_set(map, side, n, val) ==
    LET hits == {i \in DOMAIN map : map[i].side = side /\ map[i].n = n} IN
    IF hits # {}
    THEN IF \A i \in hits : map[i].val = val
         THEN [ok |-> TRUE, map |-> map, panic |-> FALSE]
         ELSE [ok |-> FALSE, map |-> map, panic |-> TRUE]
    ELSE [ok |-> TRUE, panic |-> FALSE,
          map |-> Append(map, [side |-> side, n |-> n, val |-> val])]

\* SubMap::apply_to (items.rs 1218-1224)
RECURSIVE SubMap_apply_to(_, _, _, _)
SubMap_apply_to(map, i, side, target) ==
    IF i > Len(map) THEN target
    ELSE SubMap_apply_to(map, i + 1, side,
            IF map[i].side = side
            THEN [target EXCEPT ![map[i].n + 1] = map[i].val]
            ELSE target)

\* SubMap::assert_empty (items.rs 1226-1235): TRUE when the assertion holds.
SubMap_assert_empty(map, side) == \A i \in DOMAIN map : map[i].side # side

FalseKinds == {"Adt", "Ptr", "Ref", "Bool", "Char", "Never", "Int", "Float"}

RECURSIVE type_match(_, _, _)
RECURSIVE subs_match_from(_, _, _, _)
RECURSIVE tuple_match_from(_, _, _, _)

\* subs_match (items.rs 1259-1275): the pairs of zip(lhs, rhs), in order.
subs_match_from(lhs, rhs, i, map) ==
    IF i > Len(lhs) \/ i > Len(rhs)
    THEN [ok |-> TRUE, map |-> map, panic |-> FALSE]
    ELSE LET r == type_match(lhs[i], rhs[i], map) IN
         IF r.panic \/ ~r.ok THEN r
         ELSE subs_match_from(lhs, rhs, i + 1, r.map)

subs_match(lhs, rhs, map) == subs_match_from(lhs, rhs, 1, map)

\* type_match, the Tuple arm's loop (items.rs 1300-1305).
tuple_match_from(lhs, rhs, i, map) ==
    IF i > Len(lhs)
    THEN [ok |-> TRUE, map |-> map, panic |-> FALSE]
    ELSE LET r == type_match(lhs[i], rhs[i], map) IN
         IF r.panic \/ ~r.ok THEN r
         ELSE tuple_match_from(lhs, rhs, i + 1, r.map)

\* type_match (items.rs 1278-1336)
type_match(lhs_ty, rhs_ty, map) ==
    LET no == [ok |-> FALSE, map |-> map, panic |-> FALSE]
        yes == [ok |-> TRUE, map |-> map, panic |-> FALSE]
        fatal == [ok |-> FALSE, map |-> map, panic |-> TRUE]
        lk == lhs_ty[1]
        rk == rhs_ty[1]
    IN
    IF ty_is_concrete(lhs_ty) /\ lhs_ty = rhs_ty THEN yes
    ELSE CASE lk = "Adt" /\ rk = "Adt" ->
                IF lhs_ty[2] = rhs_ty[2] THEN subs_match(lhs_ty[3], rhs_ty[3], map)
                ELSE no
           [] lk = "Ref" /\ rk = "Ref" ->
                IF lhs_ty[3] = rhs_ty[3] THEN type_match(lhs_ty[2], rhs_ty[2], map)
                ELSE no
           [] lk = "Slice" /\ rk = "Slice" -> type_match(lhs_ty[2], rhs_ty[2], map)
           [] lk = "Tuple" /\ rk = "Tuple" ->
                IF Len(lhs_ty[2]) # Len(rhs_ty[2]) THEN no
                ELSE tuple_match_from(lhs_ty[2], rhs_ty[2], 1, map)
           [] lk = "Param" /\ rk = "Param" -> fatal
           [] lk # "Param" /\ rk = "Param" -> SubMap_set(map, "Rhs", rhs_ty[2], lhs_ty)
           [] lk = "Param" /\ rk # "Param" -> SubMap_set(map, "Lhs", lhs_ty[2], rhs_ty)
           [] OTHER -> IF lk \in FalseKinds \/ rk \in FalseKinds THEN no ELSE fatal

\* trait_match (items.rs 1249-1257)
trait_match(lhs, rhs) == subs_match(lhs, rhs, <<>>)

\* An associated value of an impl: a type, or no type in that member slot.
AssocType(ty) == [kind |-> "Type", ty |-> ty]
AssocMissing == [kind |-> "None"]

TraitBound(item, subs) == [kind |-> "Trait", item |-> item, subs |-> subs]
ProjectionBound(item, member, subs, eq_ty) ==
    [kind |-> "Projection", item |-> item, member |-> member, subs |-> subs,
     eq_ty |-> eq_ty]
TraitImpl(for_types, bounds, generics, assoc_values) ==
    [for_types |-> for_types, bounds |-> bounds, generics |-> generics,
     assoc_values |-> assoc_values]

RECURSIVE find_trait_impl_from(_, _, _)
RECURSIVE check_trait_impl(_, _)
RECURSIVE check_bounds(_, _, _)
RECURSIVE resolve_associated_ty(_, _, _)

\* BuiltinTrait::find_candidate: the synthetic impl of a builtin trait for
\* for_tys, <<>> when the structural rule gives none.  Sized holds of every
\* type but str, slices and trait objects; Tuple of the tuple types.
find_candidate(builtin, for_tys) ==
    LET k == for_tys[1][1]
        holds == IF builtin = SizedTrait THEN k \notin {"Str", "Slice", "Dynamic"}
                 ELSE k = "Tuple"
    IN IF holds THEN <<[for_types |-> for_tys, bounds |-> <<>>, generics |-> 0,
                        assoc_values |-> <<>>]>>
       ELSE <<>>

\* find_trait_impl, the loop over the impl list (items.rs 1125-1131).  The
\* result names the candidate handed to the callback, by its place in the
\* list, and the substitution list built for it.
find_trait_impl_from(trait, for_tys, i) ==
    IF i > Len(impl_list[trait]) THEN None
    ELSE LET r == check_trait_impl(for_tys, impl_list[trait][i]) IN
         CASE r.tag = "Panic" -> Panic
           [] r.tag = "Some" -> [tag |-> "Some", index |-> i, subs |-> r.subs]
           [] OTHER -> find_trait_impl_from(trait, for_tys, i + 1)

\* A resolution that goes straight to the impl list.
find_trait_impl_list_only(trait, for_tys) == find_trait_impl_from(trait, for_tys, 1)

\* find_trait_impl (items.rs 1106-1134): the synthetic candidate of a
\* builtin trait first (index 0 in the result), then the impl list.
find_trait_impl(trait, for_tys) ==
    LET builtin_res == IF trait \in BuiltinTraitIds THEN find_candidate(trait, for_tys)
                       ELSE <<>>
        r == IF builtin_res # <<>> THEN check_trait_impl(for_tys, builtin_res[1]) ELSE None
    IN CASE r.tag = "Panic" -> Panic
         [] r.tag = "Some" -> [tag |-> "Some", index |-> 0, subs |-> r.subs]
         [] OTHER -> find_trait_impl_from(trait, for_tys, 1)

\* trait_has_impl (items.rs 1041-1048)
trait_has_impl(trait, for_tys) == find_trait_impl(trait, for_tys)

\* resolve_associated_ty (items.rs 979-1000)
resolve_associated_ty(trait, member_index, subs) ==
    LET r == find_trait_impl(trait, subs) IN
    IF r.tag # "Some" THEN Panic
    ELSE LET v == impl_list[trait][r.index].assoc_values[member_index + 1] IN
         IF v.kind = "Type" THEN [tag |-> "Ty", ty |-> ty_sub(v.ty, r.subs)]
         ELSE Panic

\* check_trait_impl, the loop over the bounds (items.rs 1148-1175)
check_bounds(bounds, i, trait_subs) ==
    IF i > Len(bounds) THEN [tag |-> "Ok", subs |-> trait_subs]
    ELSE LET bound == bounds[i] IN
         IF bound.kind = "Trait"
         THEN LET res == trait_has_impl(bound.item, subs_sub(bound.subs, trait_subs)) IN
              CASE res.tag = "Panic" -> Panic
                [] res.tag = "None" -> None
                [] OTHER -> check_bounds(bounds, i + 1, trait_subs)
         ELSE LET resolved == resolve_associated_ty(bound.item, bound.member,
                                   subs_sub(bound.subs, trait_subs)) IN
              IF resolved.tag = "Panic" THEN Panic
              ELSE LET m == type_match(resolved.ty, bound.eq_ty, <<>>) IN
                   IF m.panic \/ ~m.ok THEN Panic
                   ELSE IF ~SubMap_assert_empty(m.map, "Lhs") THEN Panic
                   ELSE check_bounds(bounds, i + 1,
                            SubMap_apply_to(m.map, 1, "Rhs", trait_subs))

\* check_trait_impl (items.rs 1137-1191)
check_trait_impl(for_tys, candidate) ==
    LET sub_map == trait_match(for_tys, candidate.for_types) IN
    IF sub_map.panic THEN Panic
    ELSE IF ~sub_map.ok THEN None
    ELSE LET trait_subs == SubMap_apply_to(sub_map.map, 1, "Rhs",
                                from_summary(candidate.generics))
             b == check_bounds(candidate.bounds, 1, trait_subs)
         IN CASE b.tag = "Panic" -> Panic
              [] b.tag = "None" -> None
              [] ~is_concrete(b.subs) -> Panic
              [] OTHER -> [tag |-> "Some", subs |-> b.subs]

\* The impls a crate may register.  BaseTrait declares one associated type
\* (member 0); its impls carry no bounds.  The impls of DerivedTrait are
\* bounded by BaseTrait, so the trait graph is acyclic.
BaseImpls ==
    { TraitImpl(<<IntTy>>, <<>>, 0, <<AssocType(BoolTy)>>),
      TraitImpl(<<BoolTy>>, <<>>, 0, <<AssocType(BoolTy)>>),
      TraitImpl(<<ParamTy(0)>>, <<>>, 1, <<AssocType(ParamTy(0))>>),
      TraitImpl(<<TupleTy(<<ParamTy(0), ParamTy(1)>>)>>, <<>>, 2,
                <<AssocType(ParamTy(1))>>) }

DerivedImpls ==
    { TraitImpl(<<IntTy>>, <<>>, 0, <<>>),
      TraitImpl(<<ParamTy(0)>>, <<TraitBound(BaseTrait, <<ParamTy(0)>>)>>, 1, <<>>),
      TraitImpl(<<ParamTy(0)>>,
                <<ProjectionBound(BaseTrait, 0, <<ParamTy(0)>>, BoolTy)>>, 1, <<>>),
      TraitImpl(<<ParamTy(0)>>,
                <<ProjectionBound(BaseTrait, 0, <<ParamTy(0)>>, ParamTy(1))>>, 2, <<>>),
      TraitImpl(<<ParamTy(0)>>,
                <<ProjectionBound(BaseTrait, 0, <<ParamTy(0)>>, ParamTy(0))>>, 1, <<>>) }

ImplCatalog(trait) == IF trait = BaseTrait THEN BaseImpls ELSE DerivedImpls

\* The concrete types queries are made of.
QueryTys == {IntTy, BoolTy, U8Ty, TupleTy(<<IntTy, BoolTy>>)}
Queries == {<<t>> : t \in QueryTys}

NoTrait == "NoTrait"

NoCall == [trait |-> NoTrait, for_tys |-> <<>>, res |-> None]

TraitInit ==
    /\ impl_list = [t \in AllTraitIds |-> <<>>]
    /\ trait_res = NoCall

\* add_trait_impl (items.rs 931-940).  The record of the last resolution is
\* about the list as it was, so it is cleared.
add_trait_impl(trait, info) ==
    /\ Len(impl_list[trait]) < MaxImpls
    /\ impl_list' = [impl_list EXCEPT ![trait] = Append(@, info)]
    /\ trait_res' = NoCall
    /\ UNCHANGED not_trait_vars

\* A resolution request: a call of find_trait_impl on a trait item.
FindTraitImpl(trait, for_tys) ==
    /\ trait_res' = [trait |-> trait, for_tys |-> for_tys,
                     res |-> find_trait_impl(trait, for_tys)]
    /\ UNCHANGED impl_list
    /\ UNCHANGED not_trait_vars

TraitNext ==
    \/ \E trait \in TraitIds : \E info \in ImplCatalog(trait) : add_trait_impl(trait, info)
    \/ \E trait \in TraitIds : \E q \in Queries : FindTraitImpl(trait, q)

\* The impls a crate may register for a builtin trait, and the queries.
BuiltinImpls ==
    { TraitImpl(<<IntTy>>, <<>>, 0, <<>>),
      TraitImpl(<<<<"Str">>>>, <<>>, 0, <<>>),
      TraitImpl(<<RefTy(ParamTy(0), "Const")>>, <<>>, 1, <<>>),
      TraitImpl(<<TupleTy(<<ParamTy(0), ParamTy(1)>>)>>, <<>>, 2, <<>>) }

BuiltinQueries ==
    {<<t>> : t \in {IntTy, <<"Str">>, RefTy(BoolTy, "Const"),
                    TupleTy(<<IntTy, BoolTy>>), TupleTy(<<>>)}}

BuiltinNext ==
    \/ \E trait \in BuiltinTraitIds : \E info \in BuiltinImpls : add_trait_impl(trait, info)
    \/ \E trait \in BuiltinTraitIds : \E q \in BuiltinQueries : FindTraitImpl(trait, q)

(***************************************************************************)
(* Types seen by the bytecode compiler, and their layout.  The layout and  *)
(* drop rules live in types.rs, which is outside the sources; they follow  *)
(* the documented rules: integers of 1/2/4/8/16 bytes, bool 1 byte,        *)
(* pointers one word, fat pointers two words, tuples and structs with      *)
(* their fields in declaration order at field alignment.                   *)
(***************************************************************************)
UnitTy == TupleTy(<<>>)
NeverTy == <<"Never">>
StrTy == <<"Str">>
DynTy == <<"Dynamic">>
UsizeTy == <<"Int", 8>>
StructTy(item) == AdtTy(item, <<>>)
SliceTy(t) == <<"Slice", t>>

POINTER_SIZE == 8

\* The structs of the programs below.  LogDrop and DropPair are those of
\* test/4_alloc/drop_struct.rs; Pair is a plain struct of two integers.
AdtFields(item) ==
    CASE item = "LogDrop" -> <<RefTy(StrTy, "Const")>>
      [] item = "DropPair" -> <<StructTy("LogDrop"), StructTy("LogDrop")>>
      [] item = "Pair" -> <<IntTy, IntTy>>

\* The enums of the programs below.  Opt is None | Some(i32) with a leading
\* discriminant, a u8 at offset 0, and the field of Some at offset 4.  Nz is
\* None | Some(n), n a non-zero i32, in the niche (non-zero) encoding: no
\* discriminant is stored, None is the value 0 and the field of Some is at
\* offset 0, so that only None has a discriminant value.
Enums == {"Opt", "Nz"}
enum_info(item) ==
    IF item = "Nz"
    THEN [discriminant_internal |-> IntTy,
          discriminants |-> <<<<0>>, <<>>>>,
          field_offsets |-> <<<<>>, <<0>>>>,
          size |-> 4, align |-> 4]
    ELSE [discriminant_internal |-> U8Ty,
          discriminants |-> <<<<0>>, <<1>>>>,
          field_offsets |-> <<<<>>, <<4>>>>,
          size |-> 8, align |-> 4]

\* The arrays of the programs below have two elements.
ARRAY_LEN == 2

\* The structs that implement Drop.
AdtHasDropImpl(item) == item = "LogDrop"

\* abi::align: round x up to a multiple of a.
align(x, a) == ((x + a - 1) \div a) * a

Max(a, b) == IF a >= b THEN a ELSE b

RECURSIVE layout(_)
RECURSIVE layout_fields(_, _, _)

\* The fields i.. of a tuple or struct, placed from the layout acc.
layout_fields(tys, i, acc) ==
    IF i > Len(tys)
    THEN [acc EXCEPT !.size = align(acc.size, acc.align)]
    ELSE LET f == layout(tys[i])
             off == align(acc.size, f.align)
         IN layout_fields(tys, i + 1,
                [size |-> off + f.size, align |-> Max(acc.align, f.align),
                 field_offsets |-> Append(acc.field_offsets, off)])

\* Type::layout
layout(ty) ==
    CASE ty[1] = "Int" -> [size |-> ty[2], align |-> ty[2], field_offsets |-> <<>>]
      [] ty[1] = "Bool" -> [size |-> 1, align |-> 1, field_offsets |-> <<>>]
      [] ty[1] = "Never" -> [size |-> 0, align |-> 1, field_offsets |-> <<>>]
      [] ty[1] = "Ref" ->
            [size |-> IF ty[2] \in {StrTy, DynTy} \/ ty[2][1] = "Slice"
                      THEN 2 * POINTER_SIZE ELSE POINTER_SIZE,
             align |-> POINTER_SIZE, field_offsets |-> <<>>]
      [] ty[1] = "Array" ->
            [size |-> ARRAY_LEN * layout(ty[2]).size, align |-> layout(ty[2]).align,
             field_offsets |-> <<>>]
      [] ty[1] = "Adt" /\ ty[2] \in Enums ->
            [size |-> enum_info(ty[2]).size, align |-> enum_info(ty[2]).align,
             field_offsets |-> <<>>]
      [] ty[1] = "Tuple" ->
            layout_fields(ty[2], 1, [size |-> 0, align |-> 1, field_offsets |-> <<>>])
      [] ty[1] = "Adt" /\ ty[2] \notin Enums ->
            layout_fields(AdtFields(ty[2]), 1,
                          [size |-> 0, align |-> 1, field_offsets |-> <<>>])

\* The types of the fields of a tuple or struct type.
field_tys(ty) == IF ty[1] = "Tuple" THEN ty[2] ELSE AdtFields(ty[2])

\* Type::drop_info().is_some(): the type has a runtime drop obligation, its
\* own Drop impl or that of a field.
RECURSIVE drop_info(_)
drop_info(ty) ==
    CASE ty[1] = "Tuple" -> \E i \in DOMAIN ty[2] : drop_info(ty[2][i])
      [] ty[1] = "Adt" /\ ty[2] \notin Enums ->
            \/ AdtHasDropImpl(ty[2])
            \/ \E i \in DOMAIN AdtFields(ty[2]) : drop_info(AdtFields(ty[2])[i])
      [] OTHER -> FALSE

(***************************************************************************)
(* CompilerStack (bytecode_compiler.rs 2276-2340) and the compiler state.  *)
(* A compiler state is [out_bc, stack, locals, status, allocs]; status is  *)
(* "ok" until a panic, after which no method does anything more.  allocs   *)
(* lists every slot the stack has handed out: its type, its base, and      *)
(* whether it came through alloc (checked) or from alloc_no_drop.  flags   *)
(* lists the flags match_pattern_internal has returned, and                *)
(* overflow_checks says whether the build panics on integer overflow.      *)
(* loops and loop_breaks are the compiler's fields of those names; log     *)
(* lists, for every loop, break, continue and match arm lowered, the       *)
(* indices it emitted code at.                                             *)
(***************************************************************************)
NewCompiler ==
    [out_bc |-> <<>>, stack |-> [entries |-> <<>>, top |-> 0], locals |-> <<>>,
     status |-> "ok", allocs |-> <<>>, scopes |-> <<>>, pushes |-> 0, popped |-> <<>>,
     lifo |-> TRUE, restored |-> TRUE, flags |-> <<>>, overflow_checks |-> TRUE,
     loops |-> <<>>, loop_breaks |-> <<>>, log |-> <<>>]

Ok(c) == c.status = "ok"

\* panic! / a failed assert! inside the compiler.
fail(c, why) == IF Ok(c) THEN [c EXCEPT !.status = why] ELSE c

\* self.out_bc.push(instr)
push(c, instr) == IF Ok(c) THEN [c EXCEPT !.out_bc = Append(@, instr)] ELSE c

\* The pair a lowering step returns: the new compiler state and a slot.
R(c, slot) == [c |-> c, slot |-> slot]

\* A method call, self.method(args) or self.stack.method(args).  The methods
\* are defined below under their qualified names; each call goes through
\* self_call, which hands the arguments to the method named.
RECURSIVE self_call(_, _)

alloc_no_drop(c, ty, checked) == self_call("alloc_no_drop", <<c, ty, checked>>)
alloc(c, ty) == self_call("alloc", <<c, ty>>)
alloc_pattern(c, pat) == self_call("alloc_pattern", <<c, pat>>)
align_for_call(c) == self_call("align_for_call", <<c>>)
dst_or_alloc(c, dst, ty) == self_call("dst_or_alloc", <<c, dst, ty>>)
find_local(c, local) == self_call("find_local", <<c, local>>)
lower_place(p, expr_ty, dst) == self_call("lower_place", <<p, expr_ty, dst>>)
lower_ref(p, e, dst) == self_call("lower_ref", <<p, e, dst>>)
lower_loop(d, e, depth) == self_call("lower_loop", <<d, e, depth>>)
close_loop(c, e, d, loop_index, loop_count) ==
    self_call("close_loop", <<c, e, d, loop_index, loop_count>>)
patch_breaks(c, loop_id, i) == self_call("patch_breaks", <<c, loop_id, i>>)
lower_break(c, e, dst, value_dst) == self_call("lower_break", <<c, e, dst, value_dst>>)
lower_match(d, e) == self_call("lower_match", <<d, e>>)
lower_match_arms(c, arms, i, m, jump_gaps) ==
    self_call("lower_match_arms", <<c, arms, i, m, jump_gaps>>)
lower_match_guard(check_end, arms, i, m, jump_gaps) ==
    self_call("lower_match_guard", <<check_end, arms, i, m, jump_gaps>>)
lower_match_body(c, arms, i, m, jump_gaps, ends) ==
    self_call("lower_match_body", <<c, arms, i, m, jump_gaps, ends>>)
find_or_alloc_local(c, local, ty) == self_call("find_or_alloc_local", <<c, local, ty>>)
bind_local_alias(c, local, slot) == self_call("bind_local_alias", <<c, local, slot>>)
expr_to_place(c, e) == self_call("expr_to_place", <<c, e>>)
lower_block(c, block, dst) == self_call("lower_block", <<c, block, dst>>)
lower_stmts(c, stmts, i) == self_call("lower_stmts", <<c, stmts, i>>)
lower_tuple_fields(c, fields, offsets, i, dst_slot) ==
    self_call("lower_tuple_fields", <<c, fields, offsets, i, dst_slot>>)
write_discriminant(c, e, dst_slot) == self_call("write_discriminant", <<c, e, dst_slot>>)
lower_adt_fields(c, fields, offsets, i, dst_slot) ==
    self_call("lower_adt_fields", <<c, fields, offsets, i, dst_slot>>)
lower_args(c, args, i, slots, override_arg_0) ==
    self_call("lower_args", <<c, args, i, slots, override_arg_0>>)
alloc_args(c, args, i, slots, override_arg_0) ==
    self_call("alloc_args", <<c, args, i, slots, override_arg_0>>)
copy_args(c, args, src, dst, i, override_arg_0) ==
    self_call("copy_args", <<c, args, src, dst, i, override_arg_0>>)
build_call(c, res_ty, args, override_arg_0) ==
    self_call("build_call", <<c, res_ty, args, override_arg_0>>)
build_call_alone(params, callee, args, virtual, pre) ==
    self_call("build_call_alone", <<params, callee, args, virtual, pre>>)
lower_expr(c, e, dst) == self_call("lower_expr", <<c, e, dst>>)
match_pattern_expr(c, pat, init, match_result_slot) ==
    self_call("match_pattern_expr", <<c, pat, init, match_result_slot>>)
match_pattern_place(c, pat, source, match_result_slot) ==
    self_call("match_pattern_place", <<c, pat, source, match_result_slot>>)
cut_last_gap(c, jump_gaps) == self_call("cut_last_gap", <<c, jump_gaps>>)
patch_gaps(c, jump_gaps, i, kind, slot) == self_call("patch_gaps", <<c, jump_gaps, i, kind, slot>>)
match_struct_fields(c, fields, i, offsets, source, can_alias, acc) ==
    self_call("match_struct_fields", <<c, fields, i, offsets, source, can_alias, acc>>)
match_or_options(c, options, i, source, match_result_slot, gaps) ==
    self_call("match_or_options", <<c, options, i, source, match_result_slot, gaps>>)
match_pattern_internal(c, pat, source, can_alias, match_result_slot) ==
    self_call("match_pattern_internal", <<c, pat, source, can_alias, match_result_slot>>)
alloc_params(c, params, i, slots) == self_call("alloc_params", <<c, params, i, slots>>)
match_params(c, params, slots, i) == self_call("match_params", <<c, params, slots, i>>)
compile_prologue(params, output) == self_call("compile_prologue", <<params, output>>)
compile(ir) == self_call("compile", <<ir>>)
lower_expr_both_ways(params, e, dst_kind) ==
    self_call("lower_expr_both_ways", <<params, e, dst_kind>>)
match_pattern_alone(params, pat, can_alias, overflow_checks) ==
    self_call("match_pattern_alone", <<params, pat, can_alias, overflow_checks>>)
select_copy(c, dst, src, ty) == self_call("select_copy", <<c, dst, src, ty>>)
select_literal(c, n, size, dst) == self_call("select_literal", <<c, n, size, dst>>)
select_binary(c, op, ty, dst, lhs, rhs) == self_call("select_binary", <<c, op, ty, dst, lhs, rhs>>)
copy_from_ptr(c, dst, ptr, ty, offset) == self_call("copy_from_ptr", <<c, dst, ptr, ty, offset>>)
match_slice_group(g, pats, i, base, elem_size, can_alias, slot) ==
    self_call("match_slice_group", <<g, pats, i, base, elem_size, can_alias, slot>>)
match_slice_len_check(c, pat, len_slot, match_result_slot) ==
    self_call("match_slice_len_check", <<c, pat, len_slot, match_result_slot>>)
match_slice_mid(g, pat, ref_slot, elem_size) ==
    self_call("match_slice_mid", <<g, pat, ref_slot, elem_size>>)
match_slice_end(g, pat, ref_slot, elem_size, can_alias, slot) ==
    self_call("match_slice_end", <<g, pat, ref_slot, elem_size, can_alias, slot>>)
match_slice(c, pat, source, can_alias, match_result_slot) ==
    self_call("match_slice", <<c, pat, source, can_alias, match_result_slot>>)
finish_gaps(g, kind, match_result_slot) ==
    self_call("finish_gaps", <<g, kind, match_result_slot>>)
range_cmp(c, bound, op, pat, dst, val_slot, val_first) ==
    self_call("range_cmp", <<c, bound, op, pat, dst, val_slot, val_first>>)
place_to_slot(c, source, ty) == self_call("place_to_slot", <<c, source, ty>>)

\* A stack that never pads.
stack_align_none(stack, a) == stack

\* CompilerStack::align
stack_align(stack, a) == [stack EXCEPT !.top = align(stack.top, a)]

\* CompilerStack::alloc_no_drop
CompilerStack_alloc_no_drop(c, ty, checked) ==
    LET l == layout(ty)
        st == stack_align(c.stack, l.align)
        base == st.top
    IN IF ~Ok(c) THEN R(c, 0)
       ELSE R([c EXCEPT !.stack = [entries |-> Append(st.entries,
                                                       [base |-> base, size |-> l.size]),
                                   top |-> base + l.size],
                        !.allocs = Append(@, [ty |-> ty, base |-> base,
                                              checked |-> checked])],
              base)

\* CompilerStack::alloc: assert!(drop_info.is_none()), then alloc_no_drop.
CompilerStack_alloc(c, ty) ==
    IF drop_info(ty) THEN R(fail(c, "panic: drop_info"), 0)
    ELSE alloc_no_drop(c, ty, TRUE)

\* A parameter slot handed out the way the return slot is, by alloc_no_drop.
alloc_pattern_no_drop(c, pat) == alloc_no_drop(c, pat.ty, FALSE)

\* BytecodeCompiler::alloc_pattern: the slot of a parameter pattern.
BytecodeCompiler_alloc_pattern(c, pat) == alloc(c, pat.ty)

\* CompilerStack::push_scope: the scope remembers the entries and the top.
\* Returns the compiler and the StackScope; the compiler notes the scope as
\* open (scopes), the StackScope carries the number of its push (id).
push_scope(c) ==
    LET scope == [old_entries |-> Len(c.stack.entries), old_top |-> c.stack.top,
                  id |-> c.pushes + 1]
    IN [c |-> IF Ok(c) THEN [c EXCEPT !.scopes = Append(@, scope), !.pushes = @ + 1] ELSE c,
        scope |-> scope]

\* Vec::truncate
truncate(v, len) == IF len >= Len(v) THEN v ELSE SubSeq(v, 1, len)

\* A pop that gives the scope back and leaves the stack as it is.
pop_scope_keep(c, scope) ==
    IF ~Ok(c) THEN c
    ELSE [c EXCEPT !.scopes = SelectSeq(@, LAMBDA h : h.id # scope.id),
                   !.popped = Append(@, scope.id),
                   !.lifo = @ /\ c.scopes # <<>> /\ c.scopes[Len(c.scopes)].id = scope.id,
                   !.restored = @ /\ c.stack.top = scope.old_top
                                  /\ Len(c.stack.entries) = scope.old_entries]

\* CompilerStack::pop_scope.  A panic of the lowering in between unwinds past
\* it.  The compiler notes the scope as returned (popped), whether it was
\* the innermost open one (lifo), and whether the top and the number of
\* entries are then those of the push (restored).
pop_scope(c, scope) ==
    IF ~Ok(c) THEN c
    ELSE LET entries == truncate(c.stack.entries, scope.old_entries) IN
         [c EXCEPT !.stack = [entries |-> entries, top |-> scope.old_top],
                   !.scopes = SelectSeq(@, LAMBDA h : h.id # scope.id),
                   !.popped = Append(@, scope.id),
                   !.lifo = @ /\ c.scopes # <<>> /\ c.scopes[Len(c.scopes)].id = scope.id,
                   !.restored = @ /\ Len(entries) = scope.old_entries]

\* Option<Slot>
NoDst == [some |-> FALSE, slot |-> 0]
Some(slot) == [some |-> TRUE, slot |-> slot]

\* A lowering that allocates its result slot whatever destination it is given.
dst_or_alloc_fresh(c, dst, ty) == alloc(c, ty)

\* dst_slot.unwrap_or_else(|| self.stack.alloc(ty))
BytecodeCompiler_dst_or_alloc(c, dst, ty) == IF dst.some THEN R(c, dst.slot) ELSE alloc(c, ty)

\* Slot::DUMMY
DUMMY == 0

(***************************************************************************)
(* Instructions (vm/instr.rs) and their selection (bytecode_select, which  *)
(* is outside the sources: a constant or a move of the value's size, no    *)
(* move at all for a value of size zero).                                  *)
(***************************************************************************)
I_Const(dst, val, size) == [op |-> "Const", dst |-> dst, val |-> val, size |-> size]
I_Mov(dst, src, size) == [op |-> "MovSS", dst |-> dst, src |-> src, size |-> size]
I_Bin(kind, dst, lhs, rhs, size) ==
    [op |-> kind, dst |-> dst, lhs |-> lhs, rhs |-> rhs, size |-> size]
I_Jump(offset) == [op |-> "Jump", offset |-> offset]
I_JumpF(offset, cond) == [op |-> "JumpF", offset |-> offset, cond |-> cond]
I_JumpT(offset, cond) == [op |-> "JumpT", offset |-> offset, cond |-> cond]
I_Call(frame, func) == [op |-> "Call", frame |-> frame, func |-> func]
I_CallPtr(frame, func_ptr) == [op |-> "CallPtr", frame |-> frame, func_ptr |-> func_ptr]
I_VTableFunc(dst, vtable_ptr, index) ==
    [op |-> "VTableFunc", dst |-> dst, vtable_ptr |-> vtable_ptr, index |-> index]
I_SlotAddr(dst, src) == [op |-> "SlotAddr", dst |-> dst, src |-> src]
I_PointerOffset2(dst, src, offset) ==
    [op |-> "PointerOffset2", dst |-> dst, src |-> src, offset |-> offset]
I_IndexCalcEndPointer(out, slice, elem_size) ==
    [op |-> "IndexCalcEndPointer", dst |-> out, slice |-> slice, elem_size |-> elem_size]
I_MemCompare(dst, a, b) == [op |-> "MemCompare", dst |-> dst, a |-> a, b |-> b]
I_MovFromPtr(dst, ptr, offset, size) ==
    [op |-> "MovFromPtr", dst |-> dst, ptr |-> ptr, offset |-> offset, size |-> size]
I_Return == [op |-> "Return"]
I_Skipped == [op |-> "Skipped"]

\* bytecode_select::literal
bytecode_select_literal(c, n, size, dst) == push(c, I_Const(dst, n, size))

\* bytecode_select::copy, pushed when it is Some
bytecode_select_copy(c, dst, src, ty) ==
    IF layout(ty).size = 0 THEN c ELSE push(c, I_Mov(dst, src, layout(ty).size))

\* bytecode_select::copy_from_ptr, pushed when it is Some
bytecode_select_copy_from_ptr(c, dst, ptr, ty, offset) ==
    IF layout(ty).size = 0 THEN c
    ELSE push(c, I_MovFromPtr(dst, ptr, offset, layout(ty).size))

\* bytecode_select::binary: the instruction for op at the operand type.
bytecode_select_binary(c, op, ty, dst, lhs, rhs) ==
    push(c, I_Bin(op, dst, lhs, rhs, layout(ty).size))

\* skip_instr (2230-2234): returns the index of the placeholder, 0-based.
skip_instr(c) == R(push(c, I_Skipped), Len(c.out_bc))

\* get_jump_offset (2236-2238)
get_jump_offset(c, other) == other - Len(c.out_bc)

\* self.out_bc[index] = instr, index 0-based
patch(c, index, instr) ==
    IF Ok(c) THEN [c EXCEPT !.out_bc[index + 1] = instr] ELSE c

(***************************************************************************)
(* The IR (expressions, statements, patterns) as trees.  Every expression  *)
(* and pattern carries its type; the functions compiled here are           *)
(* monomorphic, so apply_subs leaves the types as they are.                *)
(***************************************************************************)
E_Lit(n, ty) == [kind |-> "LiteralValue", n |-> n, ty |-> ty]
E_Void == [kind |-> "LiteralVoid", ty |-> UnitTy]
E_Bytes(ptr, len) ==
    [kind |-> "LiteralBytes", ptr |-> ptr, len |-> len, ty |-> RefTy(StrTy, "Const")]
E_Var(local_id, ty) == [kind |-> "VarRef", local_id |-> local_id, ty |-> ty]
E_Field(lhs, field, ty) == [kind |-> "Field", lhs |-> lhs, field |-> field, ty |-> ty]
E_Tuple(fields, ty) == [kind |-> "Tuple", fields |-> fields, ty |-> ty]
E_Binary(op, lhs, rhs, ty) ==
    [kind |-> "Binary", op |-> op, lhs |-> lhs, rhs |-> rhs, ty |-> ty]
E_LogicOp(op, lhs, rhs) ==
    [kind |-> "LogicOp", op |-> op, lhs |-> lhs, rhs |-> rhs, ty |-> BoolTy]
E_If(cond, then, else_opt, ty) ==
    [kind |-> "If", cond |-> cond, then |-> then, else_opt |-> else_opt, ty |-> ty]
E_Block(stmts, result, ty) ==
    [kind |-> "Block", stmts |-> stmts, result |-> result, ty |-> ty]
E_Assign(lhs, rhs) == [kind |-> "Assign", lhs |-> lhs, rhs |-> rhs, ty |-> UnitTy]
E_Return(value) == [kind |-> "Return", value |-> value, ty |-> NeverTy]
\* &arg, and *arg
E_Ref(arg, ty) == [kind |-> "Ref", arg |-> arg, ty |-> ty]
E_DeRef(arg, ty) == [kind |-> "DeRef", arg |-> arg, ty |-> ty]
E_Variant(variant, fields, ty) ==
    [kind |-> "Adt", variant |-> variant, fields |-> fields, ty |-> ty]
E_Adt(fields, ty) == E_Variant(0, fields, ty)
E_Call(func, args, ty) == [kind |-> "Call", func |-> func, args |-> args, ty |-> ty]
\* A call of a trait method through a trait object (is_function_dyn is Some).
E_CallDyn(func, vtable_index, args, ty) ==
    [kind |-> "CallDyn", func |-> func, vtable_index |-> vtable_index, args |-> args,
     ty |-> ty]

E_Match(arg, arms, ty) == [kind |-> "Match", arg |-> arg, arms |-> arms, ty |-> ty]
\* A match arm; the guard is <<>> (MatchGuard::None), <<expr>> (If) or
\* <<IfLet>>.
IfLet == [kind |-> "IfLet"]
Arm(pattern, guard, body) == [pattern |-> pattern, guard |-> guard, body |-> body]
E_Loop(body, loop_id, ty) == [kind |-> "Loop", body |-> body, loop_id |-> loop_id, ty |-> ty]
E_Break(loop_id, value) ==
    [kind |-> "Break", loop_id |-> loop_id, value |-> value, ty |-> NeverTy]
E_Continue(loop_id) == [kind |-> "Continue", loop_id |-> loop_id, ty |-> NeverTy]

S_Let(pattern, init) == [kind |-> "Let", pattern |-> pattern, init |-> init]
S_Expr(expr) == [kind |-> "Expr", expr |-> expr]

P_Bind(local_id, ty) ==
    [kind |-> "LocalBinding", local_id |-> local_id, mode |-> "Value",
     sub_pattern |-> <<>>, ty |-> ty]
P_BindSub(local_id, sub, ty) ==
    [kind |-> "LocalBinding", local_id |-> local_id, mode |-> "Value",
     sub_pattern |-> <<sub>>, ty |-> ty]
P_BindRef(local_id, ty) ==
    [kind |-> "LocalBinding", local_id |-> local_id, mode |-> "Ref",
     sub_pattern |-> <<>>, ty |-> ty]
P_DeRef(sub, ty) == [kind |-> "DeRef", sub_pattern |-> sub, ty |-> ty]
P_Slice(start, mid, end, ty) ==
    [kind |-> "Slice", start |-> start, mid |-> mid, end |-> end, ty |-> ty]
P_Enum(fields, variant_index, ty) ==
    [kind |-> "Enum", fields |-> fields, variant_index |-> variant_index, ty |-> ty]
P_Range(start, end, end_is_inclusive, ty) ==
    [kind |-> "Range", start |-> start, end |-> end,
     end_is_inclusive |-> end_is_inclusive, ty |-> ty]
P_NamedConst(const_ptr, ty) == [kind |-> "NamedConst", const_ptr |-> const_ptr, ty |-> ty]
P_LiteralBytes(ptr, len, ty) == [kind |-> "LiteralBytes", ptr |-> ptr, len |-> len, ty |-> ty]
P_Hole(ty) == [kind |-> "Hole", ty |-> ty]
P_Lit(n, ty) == [kind |-> "LiteralValue", n |-> n, ty |-> ty]
P_Or(options, ty) == [kind |-> "Or", options |-> options, ty |-> ty]
P_Struct(fields, ty) == [kind |-> "Struct", fields |-> fields, ty |-> ty]

\* Place::Local and Place::Ptr, a pointer with an offset; the pointer kind
\* is "Thin" or "Fat".
Local(slot) == [kind |-> "Local", slot |-> slot]
Ptr(slot, offset, ptr_kind) ==
    [kind |-> "Ptr", slot |-> slot, offset |-> offset, ptr_kind |-> ptr_kind]
\* Place::offset_by (2249-2254)
offset_by(place, n) ==
    IF place.kind = "Local" THEN Local(place.slot + n)
    ELSE Ptr(place.slot, place.offset + n, place.ptr_kind)

\* Type::is_sized
is_sized(ty) == ty[1] \notin {"Str", "Slice", "Dynamic"}

\* The pair expr_to_place returns, and the one match_pattern_internal returns.
RP(c, place) == [c |-> c, place |-> place]
RM(c, refutable) == [c |-> c, refutable |-> refutable]

MinOf(S) == CHOOSE i \in S : \A j \in S : i <= j

\* find_local (2202-2209)
BytecodeCompiler_find_local(c, local) ==
    LET hits == {i \in DOMAIN c.locals : c.locals[i][1] = local} IN
    IF hits = {} THEN R(fail(c, "panic: failed to find local"), 0)
    ELSE R(c, c.locals[MinOf(hits)][2])

\* find_or_alloc_local (2211-2220)
BytecodeCompiler_find_or_alloc_local(c, local, ty) ==
    LET hits == {i \in DOMAIN c.locals : c.locals[i][1] = local} IN
    IF hits # {} THEN R(c, c.locals[MinOf(hits)][2])
    ELSE LET a == alloc(c, ty) IN
         R(IF Ok(a.c) THEN [a.c EXCEPT !.locals = Append(@, <<local, a.slot>>)] ELSE a.c,
           a.slot)

\* assert_local_undef (2222-2228) followed by self.locals.push
BytecodeCompiler_bind_local_alias(c, local, slot) ==
    IF \E i \in DOMAIN c.locals : c.locals[i][1] = local
    THEN fail(c, "panic: assert_local_undef failed")
    ELSE IF Ok(c) THEN [c EXCEPT !.locals = Append(@, <<local, slot>>)] ELSE c

\* expr_is_place (1125-1167)
expr_is_place(e) == e.kind \in {"DeRef", "VarRef", "Field"}

\* ExprKind::Return lowers its value without a destination.
return_value_dst_None == NoDst

\* ExprKind::Return lowers its value into Some(Slot::new(0)) (line 633).
return_value_dst == Some(0)

\* bytecode_select::binary returns (ctor, swap): a greater-than is the
\* less-than instruction with its operands swapped.
binary_swap(op) == op = "Gt"
binary_instr(op) == IF op = "Gt" THEN "Lt" ELSE op


\* expr_to_place (1169-1376)
BytecodeCompiler_expr_to_place(c, e) ==
    IF ~Ok(c) THEN RP(c, Local(0)) ELSE
    CASE e.kind = "DeRef" ->
            LET addr_slot == lower_expr(c, e.arg, NoDst) IN
            RP(addr_slot.c,
               Ptr(addr_slot.slot, 0, IF is_sized(e.ty) THEN "Thin" ELSE "Fat"))
      [] e.kind = "VarRef" ->
            LET l == find_local(c, e.local_id) IN RP(l.c, Local(l.slot))
      [] e.kind = "Field" ->
            LET field_offset == layout(e.lhs.ty).field_offsets[e.field + 1]
                p == expr_to_place(c, e.lhs)
            IN RP(p.c, offset_by(p.place, field_offset))
      [] OTHER ->
            LET res == lower_expr(c, e, NoDst) IN RP(res.c, Local(res.slot))

\* lower_block (191-216)
BytecodeCompiler_lower_block(c, block, dst) ==
    LET d == IF dst.some THEN R(c, dst.slot)
             ELSE IF block.result # <<>> THEN alloc(c, block.result[1].ty)
             ELSE R(c, DUMMY)
        scope == push_scope(d.c)
        c1 == lower_stmts(scope.c, block.stmts, 1)
        c2 == IF block.result # <<>>
              THEN lower_expr(c1, block.result[1], Some(d.slot)).c
              ELSE c1
    IN CASE c.status # "ok" -> R(c, 0)
         [] c.status = "ok" /\ c1.status # "ok" -> R(c1, d.slot)
         [] c.status = "ok" /\ c1.status = "ok" /\ c2.status # "ok" -> R(c2, d.slot)
         [] OTHER -> R(pop_scope(c2, scope.scope), d.slot)

\* lower_stmt (218-236), for the statements i.. of a block
BytecodeCompiler_lower_stmts(c, stmts, i) ==
    CASE ~Ok(c) \/ i > Len(stmts) -> c
      [] Ok(c) /\ i <= Len(stmts) /\ stmts[i].kind = "Let" ->
            lower_stmts(match_pattern_expr(c, stmts[i].pattern, <<stmts[i].init>>, NoDst),
                        stmts, i + 1)
      [] OTHER ->
            LET stmt_scope == push_scope(c)
                r == lower_expr(stmt_scope.c, stmts[i].expr, NoDst)
            IN IF r.c.status # "ok" THEN r.c
               ELSE lower_stmts(pop_scope(r.c, stmt_scope.scope), stmts, i + 1)

\* ExprKind::Tuple, the loop over the fields (936-942)
BytecodeCompiler_lower_tuple_fields(c, fields, offsets, i, dst_slot) ==
    IF ~Ok(c) THEN c ELSE
    IF i > Len(fields) THEN c
    ELSE lower_tuple_fields(lower_expr(c, fields[i], Some(dst_slot + offsets[i])).c,
                            fields, offsets, i + 1, dst_slot)

\* expr_layout.field_offsets.get(variant) (1004)
variant_offsets(ty, variant) ==
    IF ty[2] \in Enums THEN enum_info(ty[2]).field_offsets[variant + 1]
    ELSE layout(ty).field_offsets

\* ExprKind::Adt, the discriminant of an enum variant (990-1001): it is
\* written to the destination when the variant has a discriminant value.
BytecodeCompiler_write_discriminant(c, e, dst_slot) ==
    IF e.ty[2] \in Enums /\ enum_info(e.ty[2]).discriminants[e.variant + 1] # <<>>
    THEN select_literal(c, enum_info(e.ty[2]).discriminants[e.variant + 1][1],
                        layout(enum_info(e.ty[2]).discriminant_internal).size, dst_slot)
    ELSE c

\* ExprKind::Adt, the loop over the (field_index, expr) pairs (1003-1007)
BytecodeCompiler_lower_adt_fields(c, fields, offsets, i, dst_slot) ==
    IF ~Ok(c) THEN c ELSE
    IF i > Len(fields) THEN c
    ELSE lower_adt_fields(
            lower_expr(c, fields[i][2], Some(dst_slot + offsets[fields[i][1] + 1])).c,
            fields, offsets, i + 1, dst_slot)

\* build_call, evaluating the args (1383-1394): returns the state and the
\* slots of the evaluated arguments.
BytecodeCompiler_lower_args(c, args, i, slots, override_arg_0) ==
    IF ~Ok(c) THEN [c |-> c, slots |-> slots] ELSE
    IF i > Len(args) THEN [c |-> c, slots |-> slots]
    ELSE IF i = 1 /\ override_arg_0.some
    THEN lower_args(c, args, i + 1, Append(slots, override_arg_0.slot), override_arg_0)
    ELSE LET r == lower_expr(c, args[i], NoDst) IN
         lower_args(r.c, args, i + 1, Append(slots, r.slot), override_arg_0)

\* A receiver passed at its own type, the fat pointer.
arg_ty_as_written(args, i, override_arg_0) == args[i].ty

\* build_call, the type an argument is passed at (1406-1410): usize for a
\* receiver that was replaced by its thin pointer.
arg_ty(args, i, override_arg_0) ==
    IF i = 1 /\ override_arg_0.some THEN UsizeTy ELSE args[i].ty

\* build_call, allocating the arg slots (1402-1414)
BytecodeCompiler_alloc_args(c, args, i, slots, override_arg_0) ==
    IF ~Ok(c) THEN [c |-> c, slots |-> slots] ELSE
    IF i > Len(args) THEN [c |-> c, slots |-> slots]
    ELSE LET a == alloc(c, arg_ty(args, i, override_arg_0)) IN
         alloc_args(a.c, args, i + 1, Append(slots, a.slot), override_arg_0)

\* build_call, copying the args to their final slots (1417-1421)
BytecodeCompiler_copy_args(c, args, src, dst, i, override_arg_0) ==
    IF ~Ok(c) THEN c ELSE
    IF i > Len(args) THEN c
    ELSE copy_args(select_copy(c, dst[i], src[i], arg_ty(args, i, override_arg_0)),
                   args, src, dst, i + 1, override_arg_0)

\* CompilerStack::align_for_call (2320-2323)
CompilerStack_align_for_call(c) ==
    R(IF Ok(c) THEN [c EXCEPT !.stack = stack_align(c.stack, 16)] ELSE c,
      align(c.stack.top, 16))

\* build_call (1379-1424)
BytecodeCompiler_build_call(c, res_ty, args, override_arg_0) ==
    IF ~Ok(c) THEN R(c, 0) ELSE
    LET args_src == lower_args(c, args, 1, <<>>, override_arg_0)
        base_slot == align_for_call(args_src.c)
        ret_slot == alloc(base_slot.c, res_ty)
        c1 == IF Ok(ret_slot.c) /\ ret_slot.slot # base_slot.slot
              THEN fail(ret_slot.c, "panic: assert_eq ret_slot") ELSE ret_slot.c
        args_dst == alloc_args(c1, args, 1, <<>>, override_arg_0)
    IN R(copy_args(args_dst.c, args, args_src.slots, args_dst.slots, 1, override_arg_0),
         ret_slot.slot)

\* What the compiler notes in its log.
note(c, entry) == IF Ok(c) THEN [c EXCEPT !.log = Append(@, entry)] ELSE c

\* self.loops.iter().find(|x| x.loop_id == *loop_id): the positions of the
\* loops with that id, innermost last; find takes the first.
find_loop(c, loop_id) == {i \in DOMAIN c.loops : c.loops[i].loop_id = loop_id}
first_loop(c, loop_id) ==
    c.loops[CHOOSE i \in find_loop(c, loop_id) : \A j \in find_loop(c, loop_id) : i <= j]

\* A loop that takes every recorded break for its own.
BytecodeCompiler_patch_breaks_all(c, loop_id, i) ==
    IF ~Ok(c) THEN c ELSE
    IF i > Len(c.loop_breaks) THEN [c EXCEPT !.loop_breaks = <<>>]
    ELSE patch_breaks(patch(c, c.loop_breaks[i].break_index,
                            I_Jump(-get_jump_offset(c, c.loop_breaks[i].break_index))),
                      loop_id, i + 1)

\* ExprKind::Loop, the break_indices loop (584-592): every break recorded
\* for the loop becomes a jump to the current end of the code, and leaves
\* loop_breaks.
BytecodeCompiler_patch_breaks(c, loop_id, i) ==
    IF ~Ok(c) THEN c ELSE
    IF i > Len(c.loop_breaks)
    THEN [c EXCEPT !.loop_breaks = SelectSeq(@, LAMBDA b : b.loop_id # loop_id)]
    ELSE LET b == c.loop_breaks[i] IN
         patch_breaks(IF b.loop_id = loop_id
                      THEN patch(c, b.break_index, I_Jump(-get_jump_offset(c, b.break_index)))
                      ELSE c,
                      loop_id, i + 1)

\* ExprKind::Loop after the body (576-594): the loop leaves the loop stack,
\* the back-jump is pushed and the breaks are patched.
BytecodeCompiler_close_loop(c, e, d, loop_index, loop_count) ==
    IF ~Ok(c) THEN R(c, d.slot) ELSE
    IF loop_count # Len(c.loops) THEN R(fail(c, "panic: assert_eq loop_count"), d.slot)
    ELSE LET popped == [c EXCEPT !.loops = SubSeq(@, 1, Len(@) - 1)]
             end_index == Len(c.out_bc)
             jumped == push(popped, I_Jump(get_jump_offset(popped, loop_index)))
             patched == patch_breaks(jumped, e.loop_id, 1)
         IN R(note(patched, [kind |-> "loop", loop_id |-> e.loop_id,
                             start_index |-> loop_index, end_index |-> end_index,
                             result_slot |-> d.slot, depth_before |-> d.depth,
                             depth_after |-> Len(patched.loops),
                             breaks_left |-> patched.loop_breaks]),
              d.slot)

\* ExprKind::Loop (562-594); d is the destination, allocated if there was
\* none.
BytecodeCompiler_lower_loop(d, e, depth) ==
    close_loop(lower_block([d.c EXCEPT !.loops =
                               Append(@, [loop_id |-> e.loop_id, result_slot |-> d.slot,
                                          start_index |-> Len(d.c.out_bc)])],
                           e.body, Some(DUMMY)).c,
               e, [slot |-> d.slot, depth |-> depth], Len(d.c.out_bc), depth + 1)

\* ExprKind::Break after its value (605-613)
BytecodeCompiler_lower_break(c, e, dst, value_dst) ==
    IF ~Ok(c) THEN R(c, 0) ELSE
    LET break_index == skip_instr(c) IN
    R(note([break_index.c EXCEPT !.loop_breaks =
                Append(@, [loop_id |-> e.loop_id, break_index |-> break_index.slot])],
           [kind |-> "break", loop_id |-> e.loop_id, index |-> break_index.slot,
            value_dst |-> value_dst]),
      IF dst.some THEN dst.slot ELSE DUMMY)

\* ExprKind::Match, an arm from its body on (1083-1095): the body goes to
\* the destination, a gap follows it, and the jumps that end the pattern
\* check and the guard are patched to lead past that gap.
BytecodeCompiler_lower_match_body(c, arms, i, m, jump_gaps, ends) ==
    IF ~Ok(c) THEN c ELSE
    LET gap == skip_instr(lower_expr(c, arms[i].body, Some(m.dst_slot)).c) IN
    lower_match_arms(note(patch_gaps(gap.c, ends, 1, "JumpF", m.match_result_slot),
                          [kind |-> "arm", arm |-> i, match |-> m.start,
                           check_end |-> ends[1], body_start |-> Len(c.out_bc),
                           body_end |-> gap.slot]),
                     arms, i + 1, m, Append(jump_gaps, gap.slot))

\* ExprKind::Match, the guard clause of an arm (1071-1081)
BytecodeCompiler_lower_match_guard(check_end, arms, i, m, jump_gaps) ==
    IF check_end.c.status # "ok" THEN check_end.c ELSE
    IF arms[i].guard = <<>>
    THEN lower_match_body(check_end.c, arms, i, m, jump_gaps, <<check_end.slot>>)
    ELSE IF arms[i].guard[1].kind = "IfLet"
    THEN fail(check_end.c, "panic: if-let match arm")
    ELSE LET guard_end == skip_instr(lower_expr(check_end.c, arms[i].guard[1],
                                                Some(m.match_result_slot)).c)
         IN lower_match_body(guard_end.c, arms, i, m, jump_gaps,
                             <<check_end.slot, guard_end.slot>>)

\* ExprKind::Match, the loop over the arms and the patching of the gaps
\* after the bodies (1067-1100)
BytecodeCompiler_lower_match_arms(c, arms, i, m, jump_gaps) ==
    IF ~Ok(c) THEN c ELSE
    IF i > Len(arms) THEN patch_gaps(c, jump_gaps, 1, "Jump", 0)
    ELSE lower_match_guard(skip_instr(match_pattern_place(c, arms[i].pattern, m.source,
                                                          Some(m.match_result_slot))),
                           arms, i, m, jump_gaps)

\* ExprKind::Match (1055-1102); d is the destination, allocated if there
\* was none.
BytecodeCompiler_lower_match(d, e) ==
    IF d.c.status # "ok" THEN R(d.c, d.slot) ELSE
    LET match_result_slot == alloc(d.c, BoolTy)
        source == expr_to_place(match_result_slot.c, e.arg)
    IN R(lower_match_arms(source.c, e.arms, 1,
                          [source |-> source.place, dst_slot |-> d.slot,
                           match_result_slot |-> match_result_slot.slot,
                           start |-> Len(d.c.out_bc)],
                          <<>>),
         d.slot)

\* lower_expr (238-1123)
\* the slot a unit-typed expression reports (289, 563, 597)
unit_slot(dst) == IF dst.some THEN dst.slot ELSE DUMMY

\* lower_expr of a place expression (242-262)
BytecodeCompiler_lower_place(p, expr_ty, dst) ==
    IF p.place.kind = "Ptr"
    THEN LET d == dst_or_alloc(p.c, dst, expr_ty) IN
         R(copy_from_ptr(d.c, d.slot, p.place.slot, expr_ty, p.place.offset), d.slot)
    ELSE IF dst.some
    THEN R(select_copy(p.c, dst.slot, p.place.slot, expr_ty), dst.slot)
    ELSE R(p.c, p.place.slot)

\* ExprKind::Ref of an operand that is neither promoted to a constant nor a
\* constant allocation (670-752); p is the place of the operand.
BytecodeCompiler_lower_ref(p, e, dst) ==
    CASE p.place.kind = "Local" ->
            LET d == dst_or_alloc(p.c, dst, e.ty) IN
            R(push(d.c, I_SlotAddr(d.slot, p.place.slot)), d.slot)
      [] p.place.kind = "Ptr" /\ p.place.offset # 0 ->
            LET d == dst_or_alloc(p.c, dst, e.ty)
                c1 == push(d.c, I_PointerOffset2(d.slot, p.place.slot, p.place.offset))
            IN IF layout(e.ty).size # 2 * POINTER_SIZE THEN R(c1, d.slot)
               ELSE IF p.place.ptr_kind # "Fat"
               THEN R(fail(c1, "panic: assert ptr_kind.is_fat"), d.slot)
               ELSE R(select_copy(c1, d.slot + POINTER_SIZE,
                                  p.place.slot + POINTER_SIZE, UsizeTy), d.slot)
      [] p.place.kind = "Ptr" /\ p.place.offset = 0 ->
            IF ~dst.some THEN R(p.c, p.place.slot)
            ELSE IF layout(e.ty).size = 2 * POINTER_SIZE /\ p.place.ptr_kind # "Fat"
            THEN R(fail(p.c, "panic: assert ptr_kind.is_fat"), dst.slot)
            ELSE R(select_copy(p.c, dst.slot, p.place.slot, e.ty), dst.slot)

BytecodeCompiler_lower_expr(c, e, dst) ==
    CASE ~Ok(c) -> R(c, 0)
      [] expr_is_place(e) -> lower_place(expr_to_place(c, e), e.ty, dst)
      [] e.kind = "Block" -> lower_block(c, e, dst)
      [] e.kind = "LiteralValue" ->
            LET d == dst_or_alloc(c, dst, e.ty) IN
            R(select_literal(d.c, e.n, layout(e.ty).size, d.slot), d.slot)
      [] e.kind = "LiteralVoid" -> R(c, unit_slot(dst))
      [] e.kind = "LiteralBytes" ->
            LET d == dst_or_alloc(c, dst, e.ty)
                c1 == select_literal(d.c, e.ptr, POINTER_SIZE, d.slot)
            IN R(select_literal(c1, e.len, POINTER_SIZE, d.slot + POINTER_SIZE), d.slot)
      [] e.kind = "Binary" ->
            LET d == dst_or_alloc(c, dst, e.ty)
                l == lower_expr(d.c, e.lhs, NoDst)
                r == lower_expr(l.c, e.rhs, NoDst)
            IN IF binary_swap(e.op)
               THEN R(select_binary(r.c, binary_instr(e.op), e.lhs.ty, d.slot, r.slot, l.slot),
                      d.slot)
               ELSE R(select_binary(r.c, binary_instr(e.op), e.lhs.ty, d.slot, l.slot, r.slot),
                      d.slot)
      [] e.kind = "Ref" -> lower_ref(expr_to_place(c, e.arg), e, dst)
      [] e.kind = "Assign" ->
            LET r == lower_expr(c, e.rhs, NoDst)
                p == expr_to_place(r.c, e.lhs)
            IN R(select_copy(p.c, p.place.slot, r.slot, e.lhs.ty), unit_slot(dst))
      [] e.kind = "Call" ->
            LET ret == build_call(c, e.ty, e.args, NoDst)
                c1 == push(ret.c, I_Call(ret.slot, e.func))
            IN IF dst.some
               THEN R(select_copy(c1, dst.slot, ret.slot, e.ty), dst.slot)
               ELSE R(c1, ret.slot)
      [] e.kind = "CallDyn" ->
            IF layout(e.args[1].ty).size # 2 * POINTER_SIZE
            THEN R(fail(c, "panic: assert receiver size"), 0)
            ELSE
            LET receiver == lower_expr(c, e.args[1], NoDst)
                vtable_ptr == receiver.slot + POINTER_SIZE
                func_ptr == alloc(receiver.c, UsizeTy)
                c1 == push(func_ptr.c, I_VTableFunc(func_ptr.slot, vtable_ptr, e.vtable_index))
                ret == build_call(c1, e.ty, e.args, Some(receiver.slot))
                c2 == push(ret.c, I_CallPtr(ret.slot, func_ptr.slot))
            IN IF dst.some
               THEN R(select_copy(c2, dst.slot, ret.slot, e.ty), dst.slot)
               ELSE R(c2, ret.slot)
      [] e.kind = "If" ->
            LET cond == lower_expr(c, e.cond, NoDst)
                j1 == skip_instr(cond.c)
            IN IF e.else_opt # <<>>
               THEN LET d == dst_or_alloc(j1.c, dst, e.ty)
                        t == lower_expr(d.c, e.then, Some(d.slot))
                        j2 == skip_instr(t.c)
                        c3 == patch(j2.c, j1.slot,
                                    I_JumpF(-get_jump_offset(j2.c, j1.slot), cond.slot))
                        el == lower_expr(c3, e.else_opt[1], Some(d.slot))
                        c4 == patch(el.c, j2.slot,
                                    I_Jump(-get_jump_offset(el.c, j2.slot)))
                    IN IF t.c.status # "ok" THEN R(t.c, d.slot)
                       ELSE IF el.c.status # "ok" THEN R(el.c, d.slot)
                       ELSE R(c4, d.slot)
               ELSE LET t == lower_expr(j1.c, e.then, dst)
                        c3 == patch(t.c, j1.slot,
                                    I_JumpF(-get_jump_offset(t.c, j1.slot), cond.slot))
                    IN R(c3, t.slot)
      [] e.kind = "LogicOp" ->
            LET d == dst_or_alloc(c, dst, e.ty)
                l == lower_expr(d.c, e.lhs, Some(d.slot))
                j1 == skip_instr(l.c)
                r == lower_expr(j1.c, e.rhs, Some(d.slot))
                off == -get_jump_offset(r.c, j1.slot)
            IN R(patch(r.c, j1.slot,
                       IF e.op = "And" THEN I_JumpF(off, d.slot) ELSE I_JumpT(off, d.slot)),
                 d.slot)
      [] e.kind = "Return" ->
            LET c1 == IF e.value # <<>>
                      THEN lower_expr(c, e.value[1], return_value_dst).c
                      ELSE c
            IN R(push(c1, I_Return), unit_slot(dst))
      [] e.kind = "Tuple" ->
            LET d == dst_or_alloc(c, dst, e.ty) IN
            R(lower_tuple_fields(d.c, e.fields, layout(e.ty).field_offsets, 1, d.slot),
              d.slot)
      [] e.kind = "Adt" ->
            LET d == dst_or_alloc(c, dst, e.ty) IN
            R(lower_adt_fields(write_discriminant(d.c, e, d.slot), e.fields,
                               variant_offsets(e.ty, e.variant), 1, d.slot),
              d.slot)
      [] e.kind = "Match" -> lower_match(dst_or_alloc(c, dst, e.ty), e)
      [] e.kind = "Loop" -> lower_loop(dst_or_alloc(c, dst, e.ty), e, Len(c.loops))
      [] e.kind = "Break" ->
            IF e.value = <<>> THEN lower_break(c, e, dst, <<>>)
            ELSE IF find_loop(c, e.loop_id) = {}
            THEN R(fail(c, "panic: unwrap on None"), 0)
            ELSE LET loop_slot == first_loop(c, e.loop_id).result_slot IN
                 lower_break(lower_expr(c, e.value[1], Some(loop_slot)).c, e, dst,
                             <<loop_slot>>)
      [] e.kind = "Continue" ->
            IF find_loop(c, e.loop_id) = {} THEN R(fail(c, "panic: unwrap on None"), 0)
            ELSE LET loop_start == first_loop(c, e.loop_id).start_index IN
                 R(note(push(c, I_Jump(get_jump_offset(c, loop_start))),
                        [kind |-> "continue", loop_id |-> e.loop_id,
                         index |-> Len(c.out_bc)]),
                   unit_slot(dst))
      [] OTHER -> R(fail(c, "panic: todo lower expr"), 0)

\* match_pattern_expr (1465-1488); init is <<>> or <<expr>>.
BytecodeCompiler_match_pattern_expr(c, pat, init, match_result_slot) ==
    IF ~Ok(c) THEN c ELSE
    LET src == IF init # <<>>
               THEN LET p == expr_to_place(c, init[1]) IN
                    [c |-> p.c, place |-> p.place, can_alias |-> ~expr_is_place(init[1])]
               ELSE LET a == alloc_pattern(c, pat) IN
                    [c |-> a.c, place |-> Local(a.slot), can_alias |-> TRUE]
        m == match_pattern_internal(src.c, pat, src.place, src.can_alias,
                                    match_result_slot)
    IN IF match_result_slot.some /\ ~m.refutable
       THEN push(m.c, I_Const(match_result_slot.slot, 1, 1))
       ELSE m.c

\* match_pattern_place (1445-1462)
BytecodeCompiler_match_pattern_place(c, pat, source, match_result_slot) ==
    IF ~Ok(c) THEN c ELSE
    LET m == match_pattern_internal(c, pat, source, FALSE, match_result_slot) IN
    IF match_result_slot.some /\ ~m.refutable
    THEN push(m.c, I_Const(match_result_slot.slot, 1, 1))
    ELSE m.c

\* "cut out unnecessary jumps" (1601-1607, 1710-1716): a placeholder that is
\* the last instruction is removed again.
BytecodeCompiler_cut_last_gap(c, jump_gaps) ==
    IF Ok(c) /\ jump_gaps # <<>> /\ jump_gaps[Len(jump_gaps)] = Len(c.out_bc) - 1
    THEN [c |-> [c EXCEPT !.out_bc = SubSeq(@, 1, Len(@) - 1),
                          !.log = Append(@, [kind |-> "cut", index |-> Len(c.out_bc) - 1])],
          gaps |-> SubSeq(jump_gaps, 1, Len(jump_gaps) - 1)]
    ELSE [c |-> c, gaps |-> jump_gaps]

\* A compiler that leaves its jump gaps as they are.
BytecodeCompiler_patch_gaps_none(c, jump_gaps, i, kind, slot) == c

\* for gap_index in jump_gaps: out_bc[gap_index] = JumpF / JumpT / Jump to
\* the end
BytecodeCompiler_patch_gaps(c, jump_gaps, i, kind, slot) ==
    IF ~Ok(c) THEN c ELSE
    IF i > Len(jump_gaps) THEN c
    ELSE LET off == -get_jump_offset(c, jump_gaps[i]) IN
         patch_gaps(patch(c, jump_gaps[i],
                          CASE kind = "JumpF" -> I_JumpF(off, slot)
                            [] kind = "JumpT" -> I_JumpT(off, slot)
                            [] kind = "Jump" -> I_Jump(off)),
                    jump_gaps, i + 1, kind, slot)

\* PatternKind::Struct, the loop over the fields (1584-1599)
BytecodeCompiler_match_struct_fields(c, fields, i, offsets, source, can_alias, acc) ==
    IF ~Ok(c) THEN [c |-> c, gaps |-> acc.gaps, result |-> acc.result] ELSE
    IF i > Len(fields) THEN [c |-> c, gaps |-> acc.gaps, result |-> acc.result]
    ELSE LET m == match_pattern_internal(c, fields[i].pattern,
                      offset_by(source, offsets[fields[i].field + 1]), can_alias,
                      acc.slot)
             j == skip_instr(m.c)
         IN IF m.refutable /\ acc.slot.some
            THEN match_struct_fields(j.c, fields, i + 1, offsets, source, can_alias,
                     [acc EXCEPT !.gaps = Append(@, j.slot), !.result = TRUE])
            ELSE match_struct_fields(m.c, fields, i + 1, offsets, source, can_alias,
                     [acc EXCEPT !.result = @ \/ m.refutable])

\* The loop over the options without result = false for an irrefutable one.
BytecodeCompiler_match_or_options_keep(c, options, i, source, match_result_slot, gaps) ==
    IF ~Ok(c) THEN [c |-> c, gaps |-> gaps, result |-> TRUE] ELSE
    IF i > Len(options) THEN [c |-> c, gaps |-> gaps, result |-> TRUE]
    ELSE LET m == match_pattern_internal(c, options[i], source, FALSE,
                                         match_result_slot)
             j == skip_instr(m.c)
         IN IF ~m.refutable
            THEN [c |-> m.c, gaps |-> gaps, result |-> TRUE]
            ELSE match_or_options(j.c, options, i + 1, source, match_result_slot,
                                  Append(gaps, j.slot))

\* PatternKind::Or, the loop over the options (1695-1708)
BytecodeCompiler_match_or_options(c, options, i, source, match_result_slot, gaps) ==
    IF ~Ok(c) THEN [c |-> c, gaps |-> gaps, result |-> TRUE] ELSE
    IF i > Len(options) THEN [c |-> c, gaps |-> gaps, result |-> TRUE]
    ELSE LET m == match_pattern_internal(c, options[i], source, FALSE,
                                         match_result_slot)
             j == skip_instr(m.c)
         IN IF ~m.refutable
            THEN [c |-> m.c, gaps |-> gaps, result |-> FALSE]
            ELSE match_or_options(j.c, options, i + 1, source, match_result_slot,
                                  Append(gaps, j.slot))

\* The value of the source in a slot: the slot itself, or a fresh slot the
\* value behind the pointer is copied to (1792-1806, and the same lines of
\* the NamedConst, LiteralBytes and Range arms).
BytecodeCompiler_place_to_slot(c, source, ty) ==
    IF source.kind = "Local" THEN R(c, source.slot)
    ELSE LET a == alloc(c, ty) IN
         R(copy_from_ptr(a.c, a.slot, source.slot, ty, source.offset), a.slot)

\* "cut out unnecessary jumps" and the patching of the remaining gaps, for
\* the pair g of a compiler and its jump gaps (1601-1614, 1669-1682,
\* 1710-1725, 2177-2190).  An or-pattern needs a result slot.
BytecodeCompiler_finish_gaps(g, kind, match_result_slot) ==
    LET cut == cut_last_gap(g.c, g.gaps) IN
    IF match_result_slot.some
    THEN patch_gaps(cut.c, cut.gaps, 1, kind, match_result_slot.slot)
    ELSE IF kind = "JumpT"
    THEN fail(cut.c, "panic: or-pattern should always have a result slot")
    ELSE cut.c

\* PatternKind::Slice on a slice, the length check (2078-2105)
BytecodeCompiler_match_slice_len_check(c, pat, len_slot, match_result_slot) ==
    LET len_req == Len(pat.start) + Len(pat.end)
        len_req_is_exact == pat.mid = <<>>
        len_check_slot == alloc(c, UsizeTy)
        c1 == select_literal(len_check_slot.c, len_req, layout(UsizeTy).size,
                             len_check_slot.slot)
        len_gap == skip_instr(select_binary(c1,
                        IF len_req_is_exact THEN "Eq" ELSE "LtEq", UsizeTy,
                        match_result_slot.slot, len_check_slot.slot, len_slot))
    IN IF ~(len_req > 0 \/ len_req_is_exact) THEN [c |-> c, gaps |-> <<>>]
       ELSE IF ~match_result_slot.some
       THEN [c |-> fail(c, "panic: no result for refutable slice pattern?"),
             gaps |-> <<>>]
       ELSE [c |-> len_gap.c, gaps |-> <<len_gap.slot>>]

\* PatternKind::Slice on a slice, the loops over the start group (2108-2122)
\* and over the end group (2168-2186): the element i is matched at the base
\* place moved on by i elements.
BytecodeCompiler_match_slice_group(g, pats, i, base, elem_size, can_alias, slot) ==
    IF ~Ok(g.c) THEN g ELSE
    IF i > Len(pats) THEN g
    ELSE LET m == match_pattern_internal(g.c, pats[i],
                      offset_by(base, (i - 1) * elem_size), can_alias, slot)
             j == skip_instr(m.c)
         IN IF m.refutable /\ slot.some
            THEN match_slice_group([c |-> j.c, gaps |-> Append(g.gaps, j.slot)], pats,
                                   i + 1, base, elem_size, can_alias, slot)
            ELSE match_slice_group([g EXCEPT !.c = m.c], pats, i + 1, base, elem_size,
                                   can_alias, slot)

\* PatternKind::Slice on a slice, the middle group (2125-2158)
BytecodeCompiler_match_slice_mid(g, pat, ref_slot, elem_size) ==
    IF pat.mid = <<>> \/ ~Ok(g.c) THEN g ELSE
    LET sub_pat == pat.mid[1]
        var_slot == find_or_alloc_local(g.c, sub_pat.local_id, sub_pat.ty)
    IN CASE sub_pat.kind = "Hole" -> g
         [] sub_pat.kind = "LocalBinding" ->
              IF sub_pat.mode # "Ref"
              THEN [g EXCEPT !.c = fail(g.c, "panic: assert mode")]
              ELSE IF sub_pat.ty[1] # "Ref" \/ sub_pat.ty[2][1] # "Slice"
              THEN [g EXCEPT !.c = fail(g.c, "panic: bad slice middle")]
              ELSE [g EXCEPT !.c =
                      push(push(var_slot.c,
                                I_PointerOffset2(var_slot.slot, ref_slot,
                                                 Len(pat.start) * elem_size)),
                           I_PointerOffset2(var_slot.slot + POINTER_SIZE,
                                            ref_slot + POINTER_SIZE,
                                            -(Len(pat.start) + Len(pat.end))))]
         [] OTHER -> g

\* PatternKind::Slice on a slice, the end group (2161-2187).  The index of
\* an end element is computed as i - end.len() on usize.
BytecodeCompiler_match_slice_end(g, pat, ref_slot, elem_size, can_alias, slot) ==
    IF Len(pat.end) = 0 \/ ~Ok(g.c) THEN g ELSE
    LET end_slot == alloc(g.c, UsizeTy)
        c3 == push(end_slot.c, I_IndexCalcEndPointer(end_slot.slot, ref_slot, elem_size))
    IN match_slice_group(
            [g EXCEPT !.c = IF c3.overflow_checks
                            THEN fail(c3, "panic: attempt to subtract with overflow")
                            ELSE c3],
            pat.end, 1, Ptr(end_slot.slot, (-Len(pat.end)) * elem_size, "Thin"),
            elem_size, can_alias, slot)

\* PatternKind::Slice on a slice (2065-2193)
BytecodeCompiler_match_slice(c, pat, source, can_alias, match_result_slot) ==
    IF source.kind # "Ptr"
    THEN RM(fail(c, "panic: attempt to match value slice"), FALSE)
    ELSE IF source.offset # 0 \/ source.ptr_kind # "Fat"
    THEN RM(fail(c, "panic: assert ref_offset, ptr_kind"), FALSE)
    ELSE RM(finish_gaps(
                match_slice_end(
                    match_slice_mid(
                        match_slice_group(
                            match_slice_len_check(c, pat, source.slot + POINTER_SIZE,
                                                  match_result_slot),
                            pat.start, 1, source, layout(pat.ty[2]).size, can_alias,
                            match_result_slot),
                        pat, source.slot, layout(pat.ty[2]).size),
                    pat, source.slot, layout(pat.ty[2]).size, can_alias,
                    match_result_slot),
                "JumpF", match_result_slot),
            Len(pat.start) + Len(pat.end) > 0 \/ pat.mid = <<>>)

\* PatternKind::Range, one comparison of the value with a bound (1905-1939)
BytecodeCompiler_range_cmp(c, bound, op, pat, dst, val_slot, val_first) ==
    LET cmp_val == lower_expr(c, bound, NoDst) IN
    IF val_first
    THEN select_binary(cmp_val.c, op, pat.ty, dst, val_slot, cmp_val.slot)
    ELSE select_binary(cmp_val.c, op, pat.ty, dst, cmp_val.slot, val_slot)

\* match_pattern_internal, the arms of `match &pat.kind`
BytecodeCompiler_match_pattern_arms(c, pat, source, can_alias, match_result_slot) ==
    CASE pat.kind = "LocalBinding" ->
            LET v == find_or_alloc_local(c, pat.local_id, pat.ty)
                c1 == CASE pat.mode = "Value" /\ source.kind = "Local" ->
                            IF ~can_alias \/ pat.sub_pattern # <<>>
                            THEN select_copy(v.c, v.slot, source.slot, pat.ty)
                            ELSE bind_local_alias(c, pat.local_id, source.slot)
                        [] pat.mode = "Value" /\ source.kind = "Ptr" ->
                            IF source.ptr_kind # "Thin"
                            THEN fail(c, "panic: assert ptr_kind.is_thin")
                            ELSE copy_from_ptr(v.c, v.slot, source.slot, pat.ty,
                                               source.offset)
                        [] pat.mode = "Ref" /\ source.kind = "Local" ->
                            push(v.c, I_SlotAddr(v.slot, source.slot))
                        [] pat.mode = "Ref" /\ source.kind = "Ptr" ->
                            LET c2 == push(v.c, I_PointerOffset2(v.slot, source.slot,
                                                                 source.offset))
                            IN IF layout(pat.ty).size # POINTER_SIZE
                               THEN fail(c2, "panic: result pointer is not thin")
                               ELSE c2
            IN IF pat.sub_pattern # <<>>
               THEN match_pattern_internal(c1, pat.sub_pattern[1], source, FALSE,
                                           match_result_slot)
               ELSE RM(c1, FALSE)
      [] pat.kind = "Struct" ->
            LET f == match_struct_fields(c, pat.fields, 1, layout(pat.ty).field_offsets,
                        source, can_alias,
                        [gaps |-> <<>>, result |-> FALSE, slot |-> match_result_slot])
            IN RM(finish_gaps(f, "JumpF", match_result_slot), f.result)
      [] pat.kind = "Enum" ->
            IF pat.ty[1] # "Adt" \/ pat.ty[2] \notin Enums
            THEN RM(fail(c, "panic: not an enum?"), TRUE)
            ELSE
            LET info == enum_info(pat.ty[2])
                discriminant == info.discriminants[pat.variant_index + 1]
            IN IF discriminant = <<>> THEN RM(fail(c, "panic: no discriminant!"), TRUE)
               ELSE
               LET fake_pattern == P_Lit(discriminant[1], info.discriminant_internal)
                   d == match_pattern_internal(c, fake_pattern, source, can_alias,
                                               match_result_slot)
                   j == skip_instr(d.c)
                   f == match_struct_fields(j.c, pat.fields, 1,
                            info.field_offsets[pat.variant_index + 1], source, can_alias,
                            [gaps |-> <<j.slot>>, result |-> FALSE,
                             slot |-> match_result_slot])
               IN RM(finish_gaps(f, "JumpF", match_result_slot), TRUE)
      [] pat.kind = "Or" ->
            IF Len(pat.options) < 2 THEN RM(fail(c, "panic: assert options"), FALSE)
            ELSE
            LET o == match_or_options(c, pat.options, 1, source, match_result_slot, <<>>)
            IN RM(finish_gaps(o, "JumpT", match_result_slot), o.result)
      [] pat.kind = "DeRef" ->
            LET sub_pattern == pat.sub_pattern
                ptr_kind == IF is_sized(sub_pattern.ty) THEN "Thin" ELSE "Fat"
            IN IF source.kind = "Local"
               THEN match_pattern_internal(c, sub_pattern, Ptr(source.slot, 0, ptr_kind),
                                           FALSE, match_result_slot)
               ELSE LET new_slot == alloc(c, pat.ty)
                        c1 == copy_from_ptr(new_slot.c, new_slot.slot, source.slot,
                                            pat.ty, source.offset)
                    IN match_pattern_internal(c1, sub_pattern,
                                              Ptr(new_slot.slot, 0, ptr_kind), FALSE,
                                              match_result_slot)
      [] pat.kind = "LiteralValue" ->
            IF ~match_result_slot.some THEN RM(fail(c, "panic: unwrap on None"), TRUE)
            ELSE
            LET val == place_to_slot(c, source, pat.ty)
                lit_slot == alloc(val.c, pat.ty)
                c1 == select_literal(lit_slot.c, pat.n, layout(pat.ty).size, lit_slot.slot)
            IN RM(select_binary(c1, "Eq", pat.ty, match_result_slot.slot, val.slot,
                                lit_slot.slot),
                  TRUE)
      [] pat.kind = "NamedConst" ->
            IF ~match_result_slot.some THEN RM(fail(c, "panic: unwrap on None"), TRUE)
            ELSE
            LET val == place_to_slot(c, source, pat.ty)
                ptr_slot == alloc(val.c, UsizeTy)
                c1 == select_literal(ptr_slot.c, pat.const_ptr, layout(UsizeTy).size,
                                     ptr_slot.slot)
                cmp_slot == alloc(c1, pat.ty)
                c2 == IF layout(pat.ty).size = 0 THEN fail(cmp_slot.c, "panic: unwrap on None")
                      ELSE copy_from_ptr(cmp_slot.c, cmp_slot.slot, ptr_slot.slot, pat.ty, 0)
            IN RM(select_binary(c2, "Eq", pat.ty, match_result_slot.slot, cmp_slot.slot,
                                val.slot),
                  TRUE)
      [] pat.kind = "LiteralBytes" ->
            IF ~match_result_slot.some THEN RM(fail(c, "panic: unwrap on None"), TRUE)
            ELSE
            LET val == place_to_slot(c, source, pat.ty) IN
            IF pat.ty[1] # "Ref" \/ pat.ty[2] # StrTy
            THEN RM(fail(val.c, "panic: string pattern on"), TRUE)
            ELSE IF layout(pat.ty).size # POINTER_SIZE * 2
            THEN RM(fail(val.c, "panic: assert size"), TRUE)
            ELSE
            LET ref_slot == alloc(val.c, pat.ty)
                c1 == select_literal(ref_slot.c, pat.ptr, POINTER_SIZE, ref_slot.slot)
                c2 == select_literal(c1, pat.len, POINTER_SIZE,
                                     ref_slot.slot + POINTER_SIZE)
            IN RM(push(c2, I_MemCompare(match_result_slot.slot, val.slot, ref_slot.slot)),
                  TRUE)
      [] pat.kind = "Range" ->
            IF ~match_result_slot.some THEN RM(fail(c, "panic: unwrap on None"), TRUE)
            ELSE
            LET val == place_to_slot(c, source, pat.ty) IN
            IF pat.end # <<>>
            THEN LET c1 == range_cmp(val.c, pat.end[1],
                              IF pat.end_is_inclusive THEN "LtEq" ELSE "Lt", pat,
                              match_result_slot.slot, val.slot, TRUE)
                     jump_index == skip_instr(c1)
                     c2 == range_cmp(jump_index.c, pat.start[1], "LtEq", pat,
                                     match_result_slot.slot, val.slot, FALSE)
                 IN IF pat.start # <<>>
                    THEN RM(patch(c2, jump_index.slot,
                                  I_JumpF(-get_jump_offset(c2, jump_index.slot),
                                          match_result_slot.slot)),
                            TRUE)
                    ELSE RM(c1, TRUE)
            ELSE IF pat.start # <<>>
            THEN RM(range_cmp(val.c, pat.start[1], "LtEq", pat, match_result_slot.slot,
                              val.slot, FALSE),
                    TRUE)
            ELSE RM(fail(val.c, "panic: bad range"), TRUE)
      [] pat.kind = "Slice" ->
            CASE pat.ty[1] = "Array" -> RM(c, FALSE)
              [] pat.ty[1] = "Slice" ->
                    match_slice(c, pat, source, can_alias, match_result_slot)
              [] OTHER -> RM(fail(c, "panic: todo slice pattern on"), FALSE)
      [] pat.kind = "Hole" -> RM(c, FALSE)
      [] OTHER -> RM(fail(c, "panic: error pattern"), FALSE)

\* The flag match_pattern_internal returns is noted with its pattern.
note_flag(m, pat) ==
    IF m.c.status = "ok"
    THEN RM([m.c EXCEPT !.flags = Append(@, <<pat, m.refutable>>)], m.refutable)
    ELSE m

\* match_pattern_internal (1493-2200).  Every flag returned is noted in
\* flags, with the pattern it is returned for.
BytecodeCompiler_match_pattern_internal(c, pat, source, can_alias, match_result_slot) ==
    IF ~Ok(c) THEN RM(c, FALSE)
    ELSE note_flag(BytecodeCompiler_match_pattern_arms(c, pat, source, can_alias,
                                                       match_result_slot), pat)

\* alloc_pattern for the parameters i.. (compile, 76-80)
BytecodeCompiler_alloc_params(c, params, i, slots) ==
    IF ~Ok(c) THEN [c |-> c, slots |-> slots] ELSE
    IF i > Len(params) THEN [c |-> c, slots |-> slots]
    ELSE LET a == alloc_pattern(c, params[i]) IN
         alloc_params(a.c, params, i + 1, Append(slots, a.slot))

\* compile, matching each parameter pattern against its slot (104-107)
BytecodeCompiler_match_params(c, params, slots, i) ==
    IF ~Ok(c) THEN c ELSE
    IF i > Len(params) THEN c
    ELSE match_params(match_pattern_internal(c, params[i], Local(slots[i]), TRUE, NoDst).c,
                      params, slots, i + 1)

\* BytecodeCompiler::compile up to the body (45-107): the return slot, the
\* body scope, the parameter slots and the parameter patterns.  Returns the
\* compiler, the scope and the parameter slots.
BytecodeCompiler_compile_prologue(params, output) ==
    LET ret_slot == alloc_no_drop(NewCompiler, output, FALSE)
        c0 == IF ret_slot.slot # 0 THEN fail(ret_slot.c, "panic: assert_eq ret_slot")
              ELSE ret_slot.c
        body_scope == push_scope(c0)
        param_slots == alloc_params(body_scope.c, params, 1, <<>>)
    IN [c |-> match_params(param_slots.c, params, param_slots.slots, 1),
        body_scope |-> body_scope.scope,
        slots |-> param_slots.slots]

\* BytecodeCompiler::compile (45-123).  An IR function is
\* [params, root_expr, output]; item functions have no closure_kind.
BytecodeCompiler_compile(ir) ==
    LET body == compile_prologue(ir.params, ir.output)
        r == lower_expr(body.c, ir.root_expr, Some(0))
    IN IF body.c.status # "ok" THEN body.c
       ELSE IF r.c.status # "ok" THEN r.c
       ELSE push(pop_scope(r.c, body.body_scope), I_Return)

\* An expression lowered on its own, in the body of a function with the
\* given parameters and the expression's type as its output: lower_expr(e,
\* Some(d)) and, from the same compiler, lower_expr(e, None) followed by the
\* copy of the returned slot to d.  d is the return slot, a slot allocated
\* for e, the slot of the parameter of e's type, or the place above the
\* stack's top, which the stack has not handed out.
BytecodeCompiler_lower_expr_both_ways(params, e, dst_kind) ==
    LET body == compile_prologue(params, e.ty)
        d == CASE dst_kind = "return slot" -> R(body.c, 0)
               [] dst_kind = "fresh" -> alloc(body.c, e.ty)
               [] dst_kind = "local" ->
                     R(body.c, body.slots[CHOOSE i \in DOMAIN params : params[i].ty = e.ty])
               [] dst_kind = "unallocated" ->
                     R(body.c, align(body.c.stack.top, layout(e.ty).align))
        with_dst == lower_expr(d.c, e, Some(d.slot))
        without == lower_expr(d.c, e, NoDst)
        copied == select_copy(without.c, d.slot, without.slot, e.ty)
    IN [dst |-> d.slot, dst_live |-> dst_kind # "unallocated", slot |-> with_dst.slot,
        compiled |-> Ok(with_dst.c) /\ Ok(copied), slots |-> body.slots,
        bc_dst |-> with_dst.c.out_bc, bc_copy |-> copied.out_bc]

\* A pattern matched on its own, in the body of a function with the given
\* parameters: match_pattern_internal(pat, source, can_alias, Some(r)), the
\* source being the parameter of the pattern's type and r a bool slot, in a
\* build with or without overflow checks.
BytecodeCompiler_match_pattern_alone(params, pat, can_alias, overflow_checks) ==
    LET body == compile_prologue(params, UnitTy)
        result == alloc(body.c, BoolTy)
        source == Local(body.slots[CHOOSE i \in DOMAIN params : params[i].ty = pat.ty])
        c0 == [result.c EXCEPT !.flags = <<>>, !.overflow_checks = overflow_checks]
        m == match_pattern_internal(c0, pat, source, can_alias, Some(result.slot))
    IN [c |-> m.c, refutable |-> m.refutable, result_slot |-> result.slot,
        source |-> source.slot]

\* A call built on its own, in the body of a function with the given
\* parameters whose stack already holds a slot of type pre: the call
\* expression lowered with no destination, and the frame compile() gives the
\* callee.  The copies are the instructions emitted for the arguments, the
\* last ones before the call instruction.
BytecodeCompiler_build_call_alone(params, callee, args, virtual, pre) ==
    LET body == compile_prologue(params, UnitTy)
        before == alloc(body.c, pre)
        e == IF virtual THEN E_CallDyn("callee", 0, args, callee.output)
             ELSE E_Call("callee", args, callee.output)
        r == lower_expr(before.c, e, NoDst)
        n == Len(r.c.out_bc)
    IN [compiled |-> Ok(r.c), ret_slot |-> r.slot, call |-> r.c.out_bc[n],
        copies |-> SubSeq(r.c.out_bc, n - Len(args), n - 1),
        top_before |-> before.c.stack.top,
        callee_compiled |-> Ok(compile_prologue(callee.params, callee.output).c),
        callee_slots |-> compile_prologue(callee.params, callee.output).slots]

\* The arguments of a call are evaluated before the method is entered.
self_call(method, a) ==
    CASE Len(a) = 0 -> a
      [] method = "alloc_no_drop" -> CompilerStack_alloc_no_drop(a[1], a[2], a[3])
      [] method = "alloc" -> CompilerStack_alloc(a[1], a[2])
      [] method = "alloc_pattern" -> BytecodeCompiler_alloc_pattern(a[1], a[2])
      [] method = "align_for_call" -> CompilerStack_align_for_call(a[1])
      [] method = "dst_or_alloc" -> BytecodeCompiler_dst_or_alloc(a[1], a[2], a[3])
      [] method = "find_local" -> BytecodeCompiler_find_local(a[1], a[2])
      [] method = "lower_place" -> BytecodeCompiler_lower_place(a[1], a[2], a[3])
      [] method = "lower_ref" -> BytecodeCompiler_lower_ref(a[1], a[2], a[3])
      [] method = "lower_loop" -> BytecodeCompiler_lower_loop(a[1], a[2], a[3])
      [] method = "close_loop" -> BytecodeCompiler_close_loop(a[1], a[2], a[3], a[4], a[5])
      [] method = "patch_breaks" -> BytecodeCompiler_patch_breaks(a[1], a[2], a[3])
      [] method = "lower_break" -> BytecodeCompiler_lower_break(a[1], a[2], a[3], a[4])
      [] method = "lower_match" -> BytecodeCompiler_lower_match(a[1], a[2])
      [] method = "lower_match_arms" ->
            BytecodeCompiler_lower_match_arms(a[1], a[2], a[3], a[4], a[5])
      [] method = "lower_match_guard" ->
            BytecodeCompiler_lower_match_guard(a[1], a[2], a[3], a[4], a[5])
      [] method = "lower_match_body" ->
            BytecodeCompiler_lower_match_body(a[1], a[2], a[3], a[4], a[5], a[6])
      [] method = "find_or_alloc_local" -> BytecodeCompiler_find_or_alloc_local(a[1], a[2], a[3])
      [] method = "bind_local_alias" -> BytecodeCompiler_bind_local_alias(a[1], a[2], a[3])
      [] method = "expr_to_place" -> BytecodeCompiler_expr_to_place(a[1], a[2])
      [] method = "lower_block" -> BytecodeCompiler_lower_block(a[1], a[2], a[3])
      [] method = "lower_stmts" -> BytecodeCompiler_lower_stmts(a[1], a[2], a[3])
      [] method = "lower_tuple_fields" ->
            BytecodeCompiler_lower_tuple_fields(a[1], a[2], a[3], a[4], a[5])
      [] method = "write_discriminant" ->
            BytecodeCompiler_write_discriminant(a[1], a[2], a[3])
      [] method = "lower_adt_fields" ->
            BytecodeCompiler_lower_adt_fields(a[1], a[2], a[3], a[4], a[5])
      [] method = "lower_args" -> BytecodeCompiler_lower_args(a[1], a[2], a[3], a[4], a[5])
      [] method = "alloc_args" -> BytecodeCompiler_alloc_args(a[1], a[2], a[3], a[4], a[5])
      [] method = "copy_args" ->
            BytecodeCompiler_copy_args(a[1], a[2], a[3], a[4], a[5], a[6])
      [] method = "build_call" -> BytecodeCompiler_build_call(a[1], a[2], a[3], a[4])
      [] method = "build_call_alone" ->
            BytecodeCompiler_build_call_alone(a[1], a[2], a[3], a[4], a[5])
      [] method = "lower_expr" -> BytecodeCompiler_lower_expr(a[1], a[2], a[3])
      [] method = "match_pattern_expr" ->
            BytecodeCompiler_match_pattern_expr(a[1], a[2], a[3], a[4])
      [] method = "match_pattern_place" ->
            BytecodeCompiler_match_pattern_place(a[1], a[2], a[3], a[4])
      [] method = "cut_last_gap" -> BytecodeCompiler_cut_last_gap(a[1], a[2])
      [] method = "patch_gaps" -> BytecodeCompiler_patch_gaps(a[1], a[2], a[3], a[4], a[5])
      [] method = "match_struct_fields" ->
            BytecodeCompiler_match_struct_fields(a[1], a[2], a[3], a[4], a[5], a[6], a[7])
      [] method = "match_or_options" ->
            BytecodeCompiler_match_or_options(a[1], a[2], a[3], a[4], a[5], a[6])
      [] method = "match_pattern_internal" ->
            BytecodeCompiler_match_pattern_internal(a[1], a[2], a[3], a[4], a[5])
      [] method = "alloc_params" -> BytecodeCompiler_alloc_params(a[1], a[2], a[3], a[4])
      [] method = "match_params" -> BytecodeCompiler_match_params(a[1], a[2], a[3], a[4])
      [] method = "compile_prologue" -> BytecodeCompiler_compile_prologue(a[1], a[2])
      [] method = "compile" -> BytecodeCompiler_compile(a[1])
      [] method = "lower_expr_both_ways" ->
            BytecodeCompiler_lower_expr_both_ways(a[1], a[2], a[3])
      [] method = "match_pattern_alone" ->
            BytecodeCompiler_match_pattern_alone(a[1], a[2], a[3], a[4])
      [] method = "select_copy" -> bytecode_select_copy(a[1], a[2], a[3], a[4])
      [] method = "select_literal" -> bytecode_select_literal(a[1], a[2], a[3], a[4])
      [] method = "select_binary" -> bytecode_select_binary(a[1], a[2], a[3], a[4], a[5], a[6])
      [] method = "copy_from_ptr" ->
            bytecode_select_copy_from_ptr(a[1], a[2], a[3], a[4], a[5])
      [] method = "match_slice_group" ->
            BytecodeCompiler_match_slice_group(a[1], a[2], a[3], a[4], a[5], a[6], a[7])
      [] method = "match_slice_len_check" ->
            BytecodeCompiler_match_slice_len_check(a[1], a[2], a[3], a[4])
      [] method = "match_slice_mid" ->
            BytecodeCompiler_match_slice_mid(a[1], a[2], a[3], a[4])
      [] method = "match_slice_end" ->
            BytecodeCompiler_match_slice_end(a[1], a[2], a[3], a[4], a[5], a[6])
      [] method = "match_slice" ->
            BytecodeCompiler_match_slice(a[1], a[2], a[3], a[4], a[5])
      [] method = "finish_gaps" -> BytecodeCompiler_finish_gaps(a[1], a[2], a[3])
      [] method = "range_cmp" ->
            BytecodeCompiler_range_cmp(a[1], a[2], a[3], a[4], a[5], a[6], a[7])
      [] method = "place_to_slot" -> BytecodeCompiler_place_to_slot(a[1], a[2], a[3])

(***************************************************************************)
(* The interpreter (vm/vm.rs 80-91).  The instruction bodies are generated *)
(* code outside the sources; they follow the documented contract: an       *)
(* arithmetic or comparison instruction reads its operand slots and writes *)
(* its destination, a move copies N bytes, a jump adds its signed offset   *)
(* to the program counter, Return ends the run.  Memory is the frame of    *)
(* the running function, byte by byte, little-endian.                      *)
(***************************************************************************)
MemSize == 64

Addrs == 0..(MemSize - 1)

RECURSIVE Pow256(_)
Pow256(n) == IF n = 0 THEN 1 ELSE 256 * Pow256(n - 1)

\* read_stack::<T>(slot): the size bytes at slot, least significant first
read_stack(mem, slot, size) == [i \in 1..size |-> mem[slot + i - 1]]

\* write_stack::<T>(slot, x), x given as its bytes
write_stack(mem, slot, bytes) ==
    [a \in Addrs |-> IF a >= slot /\ a < slot + Len(bytes)
                     THEN bytes[a - slot + 1]
                     ELSE mem[a]]

\* The bytes of a literal of the given size.  The literals of the programs
\* here are non-negative and below 2^31, so the bytes past the fourth are 0.
const_bytes(val, size) ==
    [i \in 1..size |-> IF i > 4 THEN 0 ELSE (val \div Pow256(i - 1)) % 256]

RECURSIVE add_bytes(_, _, _, _)
\* Wrapping addition at the width of the operands: the last carry is dropped.
add_bytes(x, y, i, carry) ==
    IF i > Len(x) THEN <<>>
    ELSE LET sum == x[i] + y[i] + carry IN
         <<sum % 256>> \o add_bytes(x, y, i + 1, sum \div 256)

RECURSIVE lt_unsigned(_, _, _)
\* x < y as unsigned numbers, comparing from byte i down.
lt_unsigned(x, y, i) ==
    IF i = 0 THEN FALSE
    ELSE IF x[i] # y[i] THEN x[i] < y[i]
    ELSE lt_unsigned(x, y, i - 1)

\* x < y as two's-complement numbers.
lt_signed(x, y) ==
    LET n == Len(x)
        neg_x == x[n] >= 128
        neg_y == y[n] >= 128
    IN IF neg_x # neg_y THEN neg_x ELSE lt_unsigned(x, y, n)

\* The constructor glue a Call of a struct constructor runs: the callee's
\* frame has the struct at slot 0 and the arguments after it, and each
\* argument is moved into its field.
RECURSIVE ctor_glue(_, _, _, _, _)
ctor_glue(mem, frame, item, i, top) ==
    IF i > Len(AdtFields(item)) THEN mem
    ELSE LET fl == layout(AdtFields(item)[i])
             arg == align(top, fl.align)
             off == layout(StructTy(item)).field_offsets[i]
         IN ctor_glue(write_stack(mem, frame + off, read_stack(mem, frame + arg, fl.size)),
                      frame, item, i + 1, arg + fl.size)

\* The pointer in a slot: the address of a slot of the stack is its index.
address(mem, slot) == mem[slot] + 256 * mem[slot + 1]

\* One instruction of run_bytecode: the thread [status, pc, mem] after bc[pc].
exec(instr, t) ==
    LET next == [t EXCEPT !.pc = @ + 1]
        bool(b) == IF b THEN <<1>> ELSE <<0>>
    IN
    CASE instr.op = "Const" ->
            [next EXCEPT !.mem = write_stack(@, instr.dst, const_bytes(instr.val, instr.size))]
      [] instr.op = "MovSS" ->
            [next EXCEPT !.mem = write_stack(@, instr.dst,
                                             read_stack(t.mem, instr.src, instr.size))]
      [] instr.op = "Add" ->
            [next EXCEPT !.mem = write_stack(@, instr.dst,
                    add_bytes(read_stack(t.mem, instr.lhs, instr.size),
                              read_stack(t.mem, instr.rhs, instr.size), 1, 0))]
      [] instr.op = "Eq" ->
            [next EXCEPT !.mem = write_stack(@, instr.dst,
                    bool(read_stack(t.mem, instr.lhs, instr.size)
                         = read_stack(t.mem, instr.rhs, instr.size)))]
      [] instr.op = "Lt" ->
            [next EXCEPT !.mem = write_stack(@, instr.dst,
                    bool(lt_signed(read_stack(t.mem, instr.lhs, instr.size),
                                   read_stack(t.mem, instr.rhs, instr.size))))]
      [] instr.op = "Jump" -> [t EXCEPT !.pc = @ + instr.offset]
      [] instr.op = "JumpF" ->
            IF t.mem[instr.cond] = 0 THEN [t EXCEPT !.pc = @ + instr.offset] ELSE next
      [] instr.op = "JumpT" ->
            IF t.mem[instr.cond] # 0 THEN [t EXCEPT !.pc = @ + instr.offset] ELSE next
      [] instr.op = "Call" ->
            [next EXCEPT !.mem = ctor_glue(@, instr.frame, instr.func, 1,
                                           layout(StructTy(instr.func)).size)]
      [] instr.op = "SlotAddr" ->
            [next EXCEPT !.mem = write_stack(@, instr.dst,
                                             const_bytes(instr.src, POINTER_SIZE))]
      [] instr.op = "MovFromPtr" ->
            IF ~(address(t.mem, instr.ptr) + instr.offset + instr.size - 1 \in Addrs)
            THEN [t EXCEPT !.status = "bad pointer"]
            ELSE [next EXCEPT !.mem = write_stack(@, instr.dst,
                        read_stack(t.mem, address(t.mem, instr.ptr) + instr.offset,
                                   instr.size))]
      [] instr.op = "Return" -> [t EXCEPT !.status = "returned"]
      [] OTHER -> [t EXCEPT !.status = "bad instruction"]

RECURSIVE run_bytecode(_, _)
\* run_bytecode (vm.rs 80-91): interpret until Return.  The code run through
\* this operator has forward jumps only.
run_bytecode(bc, t) ==
    IF t.status # "running" THEN t
    ELSE IF t.pc < 0 \/ t.pc >= Len(bc) THEN [t EXCEPT !.status = "out of bounds"]
    ELSE run_bytecode(bc, exec(bc[t.pc + 1], t))

(***************************************************************************)
(* The functions handed to the compiler.  Every function but main takes    *)
(* (p0: i32, p1: (i32, i32)); its body is drawn from a small grammar over  *)
(* literals, the parameters, arithmetic, comparisons, if, blocks with let  *)
(* and assignment, tuples, structs and explicit returns.                   *)
(***************************************************************************)
T2 == TupleTy(<<IntTy, IntTy>>)
T3 == TupleTy(<<U8Ty, IntTy>>)
PairTy == StructTy("Pair")

P0 == E_Var(1, IntTy)
P1 == E_Var(2, T2)
StdParams == <<P_Bind(1, IntTy), P_Bind(2, T2)>>

IntAtoms == {E_Lit(2, IntTy), P0, E_Field(P1, 1, IntTy)}
Conds == {E_Binary("Lt", P0, E_Lit(2, IntTy), BoolTy),
          E_Binary("Gt", P0, E_Lit(2, IntTy), BoolTy),
          E_Binary("Eq", P0, E_Field(P1, 0, IntTy), BoolTy),
          E_LogicOp("And", E_Binary("Lt", E_Lit(2, IntTy), P0, BoolTy),
                           E_Binary("Eq", P0, E_Field(P1, 0, IntTy), BoolTy)),
          E_LogicOp("Or", E_Binary("Lt", P0, E_Lit(2, IntTy), BoolTy),
                          E_Binary("Eq", P0, E_Field(P1, 1, IntTy), BoolTy))}

X == E_Var(3, IntTy)
T == E_Var(4, T2)

IntBodies ==
    IntAtoms
    \cup {E_Binary("Add", a, b, IntTy) : a \in IntAtoms, b \in IntAtoms}
    \cup {E_If(c, a, <<E_Lit(1, IntTy)>>, IntTy) : c \in Conds, a \in IntAtoms}
    \cup {E_If(c, E_Return(<<a>>), <<E_Lit(1, IntTy)>>, IntTy) : c \in Conds, a \in IntAtoms}
    \cup {E_Block(<<S_Let(P_Bind(3, IntTy), a)>>, <<E_Binary("Add", X, b, IntTy)>>, IntTy) :
            a \in IntAtoms, b \in IntAtoms}
    \cup {E_Block(<<S_Let(P_Bind(3, IntTy), a), S_Expr(E_Assign(X, b))>>, <<X>>, IntTy) :
            a \in IntAtoms, b \in IntAtoms}
    \cup {E_Block(<<S_Expr(E_If(c, E_Block(<<S_Expr(E_Return(<<a>>))>>, <<>>, UnitTy),
                               <<>>, UnitTy))>>,
                  <<E_Lit(1, IntTy)>>, IntTy) : c \in Conds, a \in IntAtoms}
    \cup {E_Binary("Add", a, E_Return(<<b>>), IntTy) : a \in IntAtoms, b \in IntAtoms}
    \cup {E_Field(E_Tuple(<<a, b>>, T2), 1, IntTy) : a \in IntAtoms, b \in IntAtoms}

TupleBodies ==
    {P1, E_Tuple(<<E_Field(P1, 1, IntTy), E_Field(P1, 0, IntTy)>>, T2)}
    \cup {E_Tuple(<<a, b>>, T2) : a \in IntAtoms, b \in IntAtoms}
    \cup {E_Tuple(<<a, E_Return(<<E_Tuple(<<b, a>>, T2)>>)>>, T2) :
            a \in IntAtoms, b \in IntAtoms}
    \cup {E_If(c, P1, <<E_Tuple(<<a, a>>, T2)>>, T2) : c \in Conds, a \in IntAtoms}
    \cup {E_Block(<<S_Let(P_Bind(4, T2), P1), S_Expr(E_Assign(E_Field(T, 0, IntTy), a))>>,
                  <<T>>, T2) : a \in IntAtoms}
    \cup {E_Block(<<S_Let(P_Bind(4, T2), E_Tuple(<<a, b>>, T2)),
                    S_Expr(E_Assign(T, P1))>>,
                  <<E_Tuple(<<E_Field(T, 1, IntTy), a>>, T2)>>, T2) :
            a \in IntAtoms, b \in IntAtoms}

PaddedBodies ==
    {E_Tuple(<<E_Lit(9, U8Ty), a>>, T3) : a \in IntAtoms}
    \cup {E_Block(<<S_Let(P_Bind(5, T3), E_Tuple(<<E_Lit(9, U8Ty), a>>, T3))>>,
                  <<E_Var(5, T3)>>, T3) : a \in IntAtoms}

PairBodies ==
    {E_Adt(<<<<0, a>>, <<1, b>>>>, PairTy) : a \in IntAtoms, b \in IntAtoms}
    \cup {E_Call("Pair", <<a, b>>, PairTy) : a \in IntAtoms, b \in IntAtoms}

IRFunction(params, root_expr, output) ==
    [params |-> params, root_expr |-> root_expr, output |-> output]

\* test/4_alloc/drop_struct.rs
LogDropTy == StructTy("LogDrop")
DropPairTy == StructTy("DropPair")
NewLogDrop(ptr) == E_Call("LogDrop", <<E_Bytes(ptr, 3)>>, LogDropTy)
NewDropPair(p, q) == E_Adt(<<<<0, NewLogDrop(p)>>, <<1, NewLogDrop(q)>>>>, DropPairTy)
DropStructMain ==
    IRFunction(<<>>,
        E_Block(<<
            S_Expr(E_Block(<<
                S_Let(P_Bind(1, DropPairTy), NewDropPair(1001, 1002)),
                S_Expr(E_Assign(E_Field(E_Var(1, DropPairTy), 0, LogDropTy),
                                NewLogDrop(1003)))>>, <<>>, UnitTy)),
            S_Expr(E_Block(<<
                S_Let(P_Bind(2, DropPairTy), NewDropPair(1004, 1005))>>,
                <<E_Assign(E_Var(2, DropPairTy), NewDropPair(1006, 1007))>>, UnitTy))>>,
            <<>>, UnitTy),
        UnitTy)

\* fn make() -> DropPair { DropPair { a: LogDrop(..), b: LogDrop(..) } }
MakeDropPair == IRFunction(<<>>, NewDropPair(1001, 1002), DropPairTy)

\* fn take(d: LogDrop) -> i32 { 2 }
TakeLogDrop == IRFunction(<<P_Bind(1, LogDropTy)>>, E_Lit(2, IntTy), IntTy)

Functions ==
    {IRFunction(StdParams, b, IntTy) : b \in IntBodies}
    \cup {IRFunction(StdParams, b, T2) : b \in TupleBodies}
    \cup {IRFunction(StdParams, b, T3) : b \in PaddedBodies}
    \cup {IRFunction(StdParams, b, PairTy) : b \in PairBodies}
    \cup {DropStructMain, MakeDropPair, TakeLogDrop}

NoFunction == IRFunction(<<>>, E_Void, NeverTy)
NotCompiled == [NewCompiler EXCEPT !.status = "none"]

ZeroMem == [a \in Addrs |-> 0]
IdleThreadVM == [status |-> "idle", pc |-> 0, mem |-> ZeroMem, args |-> <<>>]

CompileInit ==
    /\ cfunc = NoFunction
    /\ comp = NotCompiled
    /\ vmt = IdleThreadVM

\* Function::bytecode (vm.rs 325-339): a function without bytecode is
\* compiled; one that has bytecode is not compiled again.
Compile(ir) ==
    /\ comp.status = "none"
    /\ cfunc' = ir
    /\ comp' = compile(ir)
    /\ vmt' = IdleThreadVM
    /\ UNCHANGED not_compile_vars

\* The memory a frame starts from: a fresh thread's stack is zeroed
\* (make_thread), a reused region holds what earlier frames left there.
StaleFills == {0, 1}
StaleMem(k) == [a \in Addrs |-> IF k = 0 THEN 0 ELSE (37 * a + 11 * k) % 256]

\* The argument values of the calls.
ArgInts == {1, 3}
ArgTuple == <<3, 7>>

\* The slots of a call frame as the caller lays it out (build_call,
\* 1396-1414): the return slot at the base, then one slot per argument.
RECURSIVE frame_arg_slots(_, _, _, _)
frame_arg_slots(tys, i, top, slots) ==
    IF i > Len(tys) THEN slots
    ELSE LET l == layout(tys[i])
             base == align(top, l.align)
         IN frame_arg_slots(tys, i + 1, base + l.size, Append(slots, base))

\* The caller's copies of the two standard arguments into the frame.
write_args(mem, ir, args) ==
    LET slots == frame_arg_slots([i \in DOMAIN ir.params |-> ir.params[i].ty], 1,
                                 layout(ir.output).size, <<>>)
        m1 == write_stack(mem, slots[1], const_bytes(args[1], 4))
        m2 == write_stack(m1, slots[2], const_bytes(args[2][1], 4))
    IN write_stack(m2, slots[2] + 4, const_bytes(args[2][2], 4))

\* VMThread::call (vm.rs 65-78) on the compiled function, the caller having
\* written the arguments.
CallFunction(p0, k) ==
    /\ vmt.status = "idle"
    /\ Ok(comp)
    /\ cfunc.params = StdParams
    /\ vmt' = [status |-> "running", pc |-> 0,
               mem |-> write_args(StaleMem(k), cfunc, <<p0, ArgTuple>>),
               args |-> <<p0, ArgTuple>>]
    /\ UNCHANGED <<cfunc, comp>>
    /\ UNCHANGED not_compile_vars

\* run_bytecode (vm.rs 85-89): one turn of the loop.
VMStep ==
    /\ vmt.status = "running"
    /\ vmt' = IF vmt.pc < 0 \/ vmt.pc >= Len(comp.out_bc)
              THEN [vmt EXCEPT !.status = "out of bounds"]
              ELSE exec(comp.out_bc[vmt.pc + 1], vmt)
    /\ UNCHANGED <<cfunc, comp>>
    /\ UNCHANGED not_compile_vars

CompileNext ==
    \/ \E ir \in Functions : Compile(ir)
    \/ \E p0 \in ArgInts, k \in StaleFills : CallFunction(p0, k)
    \/ VMStep

(***************************************************************************)
(* lower_expr and match_pattern_internal on their own.  The compiler       *)
(* stands at the start of the body of                                      *)
(*     fn f(x: i32, t: (i32, i32), b: bool, p: (u8, i32)) -> R             *)
(* and lowers one expression or matches one pattern; the code emitted for  *)
(* an expression is then run on a frame that holds the parameters.         *)
(***************************************************************************)
B0 == E_Var(6, BoolTy)
P3 == E_Var(7, T3)
BodyParams == <<P_Bind(1, IntTy), P_Bind(2, T2), P_Bind(6, BoolTy), P_Bind(7, T3)>>

\* The expressions lowered: literals, places, arithmetic, comparisons,
\* logic, if, tuples with and without padding, a block with a let, a struct
\* built by its constructor and by a struct expression.  None of them
\* assigns, returns or calls anything but a constructor.
LowerExprs ==
    {E_Void, E_Lit(2, IntTy), P0, P1, B0, P3, E_Field(P1, 1, IntTy),
     E_Binary("Add", P0, E_Lit(2, IntTy), IntTy),
     E_Binary("Add", P0, E_Field(P1, 0, IntTy), IntTy),
     E_Binary("Gt", P0, E_Lit(2, IntTy), BoolTy),
     E_Binary("Eq", P0, E_Lit(3, IntTy), BoolTy),
     E_LogicOp("And", E_Binary("Eq", P0, E_Lit(3, IntTy), BoolTy), B0),
     E_LogicOp("Or", E_Binary("Eq", P0, E_Lit(3, IntTy), BoolTy), B0),
     E_If(B0, P0, <<E_Lit(1, IntTy)>>, IntTy),
     E_If(E_Binary("Lt", P0, E_Lit(2, IntTy), BoolTy), P1,
          <<E_Tuple(<<P0, P0>>, T2)>>, T2),
     E_If(B0, E_Block(<<>>, <<>>, UnitTy), <<>>, UnitTy),
     E_Tuple(<<P0, E_Lit(2, IntTy)>>, T2),
     E_Tuple(<<E_Lit(1, IntTy), E_Binary("Add", P0, E_Lit(2, IntTy), IntTy)>>, T2),
     E_Tuple(<<E_Field(P1, 1, IntTy), E_Field(P1, 0, IntTy)>>, T2),
     E_Tuple(<<E_Lit(9, U8Ty), P0>>, T3),
     E_Tuple(<<E_Field(P3, 0, U8Ty), E_Lit(2, IntTy)>>, T3),
     E_Block(<<S_Let(P_Bind(3, IntTy), E_Binary("Add", P0, E_Lit(2, IntTy), IntTy))>>,
             <<E_Binary("Add", X, X, IntTy)>>, IntTy),
     E_Adt(<<<<0, P0>>, <<1, E_Lit(2, IntTy)>>>>, PairTy),
     E_Call("Pair", <<P0, E_Field(P1, 1, IntTy)>>, PairTy)}

\* The patterns matched, against x or against t.
IntPatterns ==
    {P_Hole(IntTy), P_Bind(3, IntTy), P_Lit(3, IntTy),
     P_BindSub(3, P_Lit(3, IntTy), IntTy),
     P_BindSub(3, P_Hole(IntTy), IntTy),
     P_Or(<<P_Lit(1, IntTy), P_Lit(3, IntTy)>>, IntTy),
     P_Or(<<P_Lit(3, IntTy), P_Hole(IntTy)>>, IntTy),
     P_Or(<<P_Hole(IntTy), P_Lit(3, IntTy)>>, IntTy),
     P_Or(<<P_Lit(1, IntTy), P_Lit(3, IntTy), P_Hole(IntTy)>>, IntTy)}

TuplePatterns ==
    {P_Hole(T2), P_Bind(4, T2)}
    \cup {P_Struct(<<[field |-> 0, pattern |-> a], [field |-> 1, pattern |-> b]>>, T2) :
            a \in IntPatterns \ {P_Bind(3, IntTy)}, b \in {P_Hole(IntTy), P_Bind(3, IntTy),
                                                          P_Lit(7, IntTy)}}

\* The body the patterns are matched in: the parameters above, a slice s,
\* an array a, an enum o and a string r.
SliceRefTy == RefTy(SliceTy(IntTy), "Const")
OptTy == AdtTy("Opt", <<>>)
StrRefTy == RefTy(StrTy, "Const")
PatParams ==
    BodyParams \o <<P_Bind(9, SliceRefTy), P_Bind(10, ArrayTy(IntTy)), P_Bind(11, OptTy),
                    P_Bind(12, StrRefTy)>>

\* Ranges, a named constant, and or-patterns and tuple patterns over them.
RangePatterns ==
    {P_Range(<<E_Lit(1, IntTy)>>, <<E_Lit(5, IntTy)>>, TRUE, IntTy),
     P_Range(<<E_Lit(1, IntTy)>>, <<E_Lit(5, IntTy)>>, FALSE, IntTy),
     P_Range(<<E_Lit(1, IntTy)>>, <<>>, FALSE, IntTy),
     P_Range(<<>>, <<E_Lit(5, IntTy)>>, TRUE, IntTy),
     P_Range(<<>>, <<>>, FALSE, IntTy),
     P_NamedConst(64, IntTy),
     P_Or(<<P_Range(<<>>, <<E_Lit(5, IntTy)>>, TRUE, IntTy), P_NamedConst(64, IntTy)>>, IntTy),
     P_Or(<<P_NamedConst(64, IntTy), P_Bind(3, IntTy), P_Lit(3, IntTy)>>, IntTy),
     P_Struct(<<[field |-> 0, pattern |-> P_NamedConst(64, IntTy)],
                [field |-> 1, pattern |-> P_Range(<<E_Lit(1, IntTy)>>, <<>>, FALSE, IntTy)]>>,
              T2)}

\* Patterns of an enum and of a string.
EnumPatterns ==
    {P_Hole(OptTy), P_Enum(<<>>, 0, OptTy), P_LiteralBytes(64, 2, StrRefTy)}
    \cup {P_Enum(<<[field |-> 0, pattern |-> a]>>, 1, OptTy) :
            a \in {P_Hole(IntTy), P_Bind(3, IntTy), P_Lit(3, IntTy)}}
    \cup {P_Or(<<P_Enum(<<>>, 0, OptTy), a>>, OptTy) :
            a \in {P_Hole(OptTy),
                   P_Enum(<<[field |-> 0, pattern |-> P_Hole(IntTy)]>>, 1, OptTy)}}

\* Slice patterns [start.., mid, ..end] of the slice behind s, and of the
\* array a.
SliceElems == {<<>>, <<P_Hole(IntTy)>>, <<P_Bind(3, IntTy)>>, <<P_Lit(3, IntTy)>>,
               <<P_Bind(3, IntTy), P_Lit(7, IntTy)>>}
SliceMids == {<<>>, <<P_Hole(SliceTy(IntTy))>>, <<P_BindRef(4, SliceRefTy)>>}
SlicePatterns ==
    {P_DeRef(P_Slice(start, mid, end, SliceTy(IntTy)), SliceRefTy) :
        start \in SliceElems, mid \in SliceMids,
        end \in {<<>>, <<P_Hole(IntTy)>>, <<P_Lit(7, IntTy)>>, <<P_Bind(5, IntTy)>>,
                 <<P_Lit(3, IntTy), P_Lit(7, IntTy)>>}}
    \cup {P_Slice(start, mid, <<>>, ArrayTy(IntTy)) :
            start \in {<<P_Hole(IntTy), P_Hole(IntTy)>>, <<P_Lit(3, IntTy), P_Lit(7, IntTy)>>,
                       <<P_Lit(3, IntTy)>>},
            mid \in {<<>>, <<P_Hole(ArrayTy(IntTy))>>}}

Patterns == IntPatterns \cup TuplePatterns \cup RangePatterns \cup EnumPatterns
                \cup SlicePatterns

\* The locals an expression mentions.
RECURSIVE var_refs(_)
var_refs(e) ==
    LET all(es) == UNION {var_refs(es[i]) : i \in DOMAIN es} IN
    CASE e.kind = "VarRef" -> {e.local_id}
      [] e.kind = "Field" -> var_refs(e.lhs)
      [] e.kind \in {"Binary", "LogicOp", "Assign"} -> var_refs(e.lhs) \cup var_refs(e.rhs)
      [] e.kind = "If" -> var_refs(e.cond) \cup var_refs(e.then) \cup all(e.else_opt)
      [] e.kind \in {"Tuple"} -> all(e.fields)
      [] e.kind = "Adt" -> UNION {var_refs(e.fields[i][2]) : i \in DOMAIN e.fields}
      [] e.kind = "Call" -> all(e.args)
      [] e.kind = "Return" -> all(e.value)
      [] e.kind = "Block" ->
            UNION {var_refs(IF e.stmts[i].kind = "Let" THEN e.stmts[i].init
                            ELSE e.stmts[i].expr) : i \in DOMAIN e.stmts}
            \cup all(e.result)
      [] OTHER -> {}

\* The bytes of a slot of the given type.
slot_bytes(slot, ty) == {slot + i : i \in 0..(layout(ty).size - 1)}

\* The bytes of the parameters an expression reads.
param_bytes(e, slots) ==
    UNION {slot_bytes(slots[i], BodyParams[i].ty) :
            i \in {j \in DOMAIN BodyParams : BodyParams[j].local_id \in var_refs(e)}}

\* The offsets of a type's bytes that hold a part of the value: the rest is
\* padding between and after the fields.
RECURSIVE value_bytes(_)
value_bytes(ty) ==
    IF ty[1] \in {"Tuple", "Adt"}
    THEN UNION {{layout(ty).field_offsets[i] + b : b \in value_bytes(field_tys(ty)[i])} :
                    i \in DOMAIN field_tys(ty)}
    ELSE 0..(layout(ty).size - 1)

\* The frame the emitted code runs on: the parameters x, t = (3, 7), b and
\* p = (5, 9) in their slots, the rest as the frame's region was left.
BodyFrame(k, slots, x, b) ==
    LET m1 == write_stack(StaleMem(k), slots[1], const_bytes(x, 4))
        m2 == write_stack(m1, slots[2], const_bytes(3, 4) \o const_bytes(7, 4))
        m3 == write_stack(m2, slots[3], const_bytes(b, 1))
        m4 == write_stack(m3, slots[4], const_bytes(5, 1))
    IN write_stack(m4, slots[4] + layout(T3).field_offsets[2], const_bytes(9, 4))

\* The bytes an instruction writes: a constant, a move and an addition
\* write a value of their size, a comparison writes one bool.
writes(instr) ==
    CASE instr.op \in {"Const", "MovSS", "Add", "MovFromPtr"} ->
            {instr.dst + i : i \in 0..(instr.size - 1)}
      [] instr.op \in {"Eq", "Lt", "LtEq", "MemCompare"} -> {instr.dst}
      [] instr.op \in {"SlotAddr", "PointerOffset2", "IndexCalcEndPointer"} ->
            {instr.dst + i : i \in 0..(POINTER_SIZE - 1)}
      [] OTHER -> {}

\* run_bytecode on a piece of code, ended by a Return.
RunCode(bc, mem) ==
    run_bytecode(Append(bc, I_Return), [status |-> "running", pc |-> 0, mem |-> mem,
                                        args |-> <<>>])

\* The destinations an expression is lowered into.
DstKinds == {"return slot", "fresh", "local", "unallocated"}

NotLowered == [status |-> "none"]
NotMatched == [status |-> "none"]

NotCalled == [status |-> "none"]

LowerInit ==
    /\ lowered = NotLowered
    /\ matched = NotMatched
    /\ called = NotCalled

\* The outcome of lowering e both ways, the code of each run on the frame.
Lowered(low, e, k, x, b) ==
    [status |-> "done", expr |-> e, dst |-> low.dst, dst_live |-> low.dst_live,
     slot |-> low.slot, compiled |-> low.compiled,
     reads |-> param_bytes(e, low.slots),
     mem_dst |-> RunCode(low.bc_dst, BodyFrame(k, low.slots, x, b)).mem,
     mem_copy |-> RunCode(low.bc_copy, BodyFrame(k, low.slots, x, b)).mem]

\* lower_expr(e, Some(d)) and, from the same compiler, lower_expr(e, None)
\* followed by the copy of the returned slot to d; both pieces of code run
\* on the same frame.
LowerExpr(e, dst_kind, k, x, b) ==
    /\ lowered.status = "none" /\ matched.status = "none" /\ called.status = "none"
    /\ dst_kind = "local" => \E i \in DOMAIN BodyParams : BodyParams[i].ty = e.ty
    /\ lowered' = Lowered(lower_expr_both_ways(BodyParams, e, dst_kind), e, k, x, b)
    /\ UNCHANGED <<matched, called>>
    /\ UNCHANGED not_lower_vars

\* The outcome of matching pat: the code emitted and the value returned.
Matched(m, pat) ==
    [status |-> "done", pat |-> pat, result_slot |-> m.result_slot,
     refutable |-> m.refutable, compiled |-> Ok(m.c), out_bc |-> m.c.out_bc,
     flags |-> m.c.flags, source |-> m.source, panic |-> m.c.status]

\* match_pattern_internal(pat, source, can_alias, Some(result slot)), the
\* source being the parameter of the pattern's type.
MatchPattern(pat, can_alias, overflow_checks) ==
    /\ lowered.status = "none" /\ matched.status = "none" /\ called.status = "none"
    /\ matched' = Matched(match_pattern_alone(PatParams, pat, can_alias, overflow_checks),
                          pat)
    /\ UNCHANGED <<lowered, called>>
    /\ UNCHANGED not_lower_vars

\* The body the calls are built in: the parameters above and a trait object.
D0 == E_Var(8, RefTy(DynTy, "Const"))
CallParams == BodyParams \o <<P_Bind(8, RefTy(DynTy, "Const"))>>

\* The callee of a call: only its signature matters to the frame.
Callee(tys, output) ==
    IRFunction([i \in DOMAIN tys |-> P_Bind(i, tys[i])], E_Void, output)

\* The calls built: the callee, the arguments, and whether the call goes
\* through the vtable of the receiver, args[1].
CallSites ==
    {[callee |-> Callee(<<IntTy, T2>>, IntTy), args |-> <<P0, P1>>, virtual |-> FALSE],
     [callee |-> Callee(<<IntTy, T2>>, IntTy),
      args |-> <<E_Binary("Add", P0, E_Lit(2, IntTy), IntTy), E_Tuple(<<P0, P0>>, T2)>>,
      virtual |-> FALSE],
     [callee |-> Callee(<<U8Ty, IntTy, BoolTy, T3>>, U8Ty),
      args |-> <<E_Lit(1, U8Ty), P0, B0, P3>>, virtual |-> FALSE],
     [callee |-> Callee(<<BoolTy>>, T2), args |-> <<B0>>, virtual |-> FALSE],
     [callee |-> Callee(<<>>, IntTy), args |-> <<>>, virtual |-> FALSE],
     [callee |-> Callee(<<BoolTy, UsizeTy, U8Ty>>, UnitTy),
      args |-> <<B0, E_Lit(4, UsizeTy), E_Lit(1, U8Ty)>>, virtual |-> FALSE],
     [callee |-> Callee(<<RefTy(PairTy, "Const")>>, IntTy), args |-> <<D0>>,
      virtual |-> TRUE],
     [callee |-> Callee(<<RefTy(PairTy, "Const"), IntTy>>, BoolTy), args |-> <<D0, P0>>,
      virtual |-> TRUE],
     [callee |-> Callee(<<RefTy(PairTy, "Const"), U8Ty, T3>>, T3),
      args |-> <<D0, E_Lit(2, U8Ty), P3>>, virtual |-> TRUE]}

\* What the caller's stack holds above the parameters when the call is built.
PreTys == {UnitTy, U8Ty, IntTy, T3, UsizeTy}

\* The outcome of building a call: the frame of the caller and of the callee.
Called(b, site, pre) ==
    [status |-> "done", callee |-> site.callee, args |-> site.args,
     virtual |-> site.virtual, pre |-> pre, compiled |-> b.compiled,
     ret_slot |-> b.ret_slot, call |-> b.call, copies |-> b.copies,
     top_before |-> b.top_before, callee_compiled |-> b.callee_compiled,
     callee_slots |-> b.callee_slots]

\* A call expression of a function body is lowered: build_call lays out the
\* frame, and compile lays out the callee's.
BuildCall(site, pre) ==
    /\ lowered.status = "none" /\ matched.status = "none" /\ called.status = "none"
    /\ called' = Called(build_call_alone(CallParams, site.callee, site.args, site.virtual,
                                         pre), site, pre)
    /\ UNCHANGED <<lowered, matched>>
    /\ UNCHANGED not_lower_vars

LowerNext ==
    \/ \E e \in LowerExprs, dst_kind \in DstKinds, k \in StaleFills, x \in ArgInts,
          b \in {0, 1} : LowerExpr(e, dst_kind, k, x, b)
    \/ \E pat \in Patterns, can_alias \in BOOLEAN, overflow_checks \in BOOLEAN :
          MatchPattern(pat, can_alias, overflow_checks)
    \/ \E site \in CallSites, pre \in PreTys : BuildCall(site, pre)

(***************************************************************************)
(* Closures (closure.rs): the base IR of a closure and the IR lowered from  *)
(* it for each of the Fn traits, each kept in a OnceLock.                   *)
(***************************************************************************)
FnTraits == {"Fn", "FnMut", "FnOnce"}

\* The type of a closure: its captured upvars.
ClosureTy(upvars) == <<"Closure", upvars>>
ClosureTys == {ClosureTy(<<>>), ClosureTy(<<IntTy>>), ClosureTy(<<RefTy(IntTy, "Mut"), T2>>)}

\* The IR of a closure: signature, parameter patterns, body, closure_kind.
ClosureIR(inputs, params, root_expr, output) ==
    [sig |-> [inputs |-> inputs, output |-> output], params |-> params,
     root_expr |-> root_expr, closure_kind |-> <<>>]

\* The base IRs the front end sets: closures of zero to three parameters.
BaseIRs ==
    {ClosureIR(<<>>, <<>>, E_Lit(7, IntTy), IntTy),
     ClosureIR(<<IntTy>>, <<P_Bind(1, IntTy)>>, P0, IntTy),
     ClosureIR(<<IntTy>>, <<P_Hole(IntTy)>>, E_Lit(1, IntTy), IntTy),
     ClosureIR(<<IntTy, IntTy>>, <<P_Bind(1, IntTy), P_Bind(3, IntTy)>>,
               E_Binary("Add", P0, X, IntTy), IntTy),
     ClosureIR(<<IntTy, T2>>, StdParams, E_Field(P1, 1, IntTy), IntTy),
     ClosureIR(<<U8Ty, BoolTy, T3>>, <<P_Hole(U8Ty), P_Bind(6, BoolTy), P_Bind(7, T3)>>,
               B0, BoolTy)}

\* The outcome of build_ir_for_trait: an IR, or the panic.
Built(ir) == [panic |-> FALSE, ir |-> ir]
BuildPanic(msg) == [panic |-> TRUE, msg |-> msg]

\* build_ir_for_trait (closure.rs 96-143)
build_ir_for_trait(ir_in, kind, self_ty_base) ==
    IF kind \notin {"Fn", "FnMut"} THEN BuildPanic("todo self ty")
    ELSE
    LET self_ty == IF kind = "Fn" THEN RefTy(self_ty_base, "Const")
                   ELSE RefTy(self_ty_base, "Mut")
        args_tuple == TupleTy(ir_in.sig.inputs)
        self_pattern == P_Hole(self_ty)
        param_fields == [index \in DOMAIN ir_in.params |->
                            [field |-> index - 1, pattern |-> ir_in.params[index]]]
        args_pattern == P_Struct(param_fields, args_tuple)
    IN Built([ir_in EXCEPT !.closure_kind = <<kind>>,
                           !.sig.inputs = <<self_ty, args_tuple>>,
                           !.params = <<self_pattern, args_pattern>>])

\* The OnceLock of Closure that holds the IR of a kind.
ir_field(kind) ==
    CASE kind = "Fn" -> "ir_fn" [] kind = "FnMut" -> "ir_mut" [] kind = "FnOnce" -> "ir_once"

NewClosure == [ir_base |-> <<>>, ir_fn |-> <<>>, ir_mut |-> <<>>, ir_once |-> <<>>]
NoRequest == [status |-> "none"]

ClosureInit ==
    /\ closure = NewClosure
    /\ closure_res = NoRequest

\* Closure::set_ir_base (closure.rs 49-51): OnceLock::set, a second set is
\* dropped.
set_ir_base(ir) ==
    /\ closure' = IF closure.ir_base = <<>> THEN [closure EXCEPT !.ir_base = <<ir>>]
                  ELSE closure
    /\ UNCHANGED closure_res
    /\ UNCHANGED not_closure_vars

\* The outcome of a request: what was asked, the base IR at that time,
\* whether the OnceLock was initialised by this request, and the IR returned
\* or the panic.
Requested(kind, self_ty, base, built, outcome) ==
    IF outcome.panic
    THEN [status |-> "panic", kind |-> kind, self_ty |-> self_ty, base |-> base,
          built |-> built, msg |-> outcome.msg]
    ELSE [status |-> "returned", kind |-> kind, self_ty |-> self_ty, base |-> base,
          built |-> built, ir |-> outcome.ir]

\* Closure::ir_for_trait (closure.rs 53-74): get_or_init of the kind's
\* OnceLock with build_ir_for_trait of the base IR; a panic of the
\* initialiser leaves the OnceLock empty.
ir_for_trait(kind, self_ty) ==
    LET cached == closure[ir_field(kind)]
        outcome == IF cached # <<>> THEN Built(cached[1])
                   ELSE IF closure.ir_base = <<>> THEN BuildPanic("no ir for closure")
                   ELSE build_ir_for_trait(closure.ir_base[1], kind, self_ty)
    IN /\ closure' = IF outcome.panic THEN closure
                     ELSE [closure EXCEPT ![ir_field(kind)] = <<outcome.ir>>]
       /\ closure_res' = Requested(kind, self_ty, closure.ir_base, cached = <<>>, outcome)
       /\ UNCHANGED not_closure_vars

ClosureNext ==
    \/ \E ir \in BaseIRs : set_ir_base(ir)
    \/ \E kind \in FnTraits, self_ty \in ClosureTys : ir_for_trait(kind, self_ty)

(***************************************************************************)
(* The rustc worker (rustc_worker.rs): one thread that owns the compiler    *)
(* context and runs the commands other threads send it over a channel.      *)
(***************************************************************************)
NumSubmitters == 2
MaxCmds == 3
Submitters == 1..NumSubmitters

\* The items whose IR the worker builds.
WorkerItems == {1}

\* The commands: build_function_ir's closure for an item, wait_for_setup's
\* empty one.
CmdKinds == {[name |-> "build_function_ir", item |-> i] : i \in WorkerItems}
            \cup {[name |-> "wait_for_setup"]}

\* WorkerResult as call makes it (637-640): no value, nobody at the barrier.
NewWorkerResult == [value |-> "None", arrived |-> 0]

\* A barrier of one party: wait never blocks.
released_alone(r) == r.arrived >= 1

\* Barrier::new(2) (638): wait blocks until two threads have arrived.
released(r) == r.arrived >= 2

IdleSubmitter == [pc |-> "idle"]

WorkerInit ==
    /\ chan = <<>>
    /\ sent = <<>>
    /\ executed = <<>>
    /\ results = <<>>
    /\ wk = [pc |-> "setup"]
    /\ submitter = [t \in Submitters |-> IdleSubmitter]
    /\ item_ir = [i \in WorkerItems |-> FALSE]

\* The worker thread up to its loop (151-616): the items are gathered.
WorkerSetup ==
    /\ wk.pc = "setup"
    /\ wk' = [pc |-> "recv"]
    /\ UNCHANGED <<chan, sent, executed, results, submitter, item_ir>>
    /\ UNCHANGED not_worker_vars

\* A channel that hands out the newest command first.
recv_newest(ch) == [cmd |-> ch[Len(ch)], rest |-> SubSeq(ch, 1, Len(ch) - 1)]

\* Receiver::recv of the mpsc channel (105, 618): the oldest command.
recv(ch) == [cmd |-> Head(ch), rest |-> Tail(ch)]

\* recv.recv() (618): blocks while the channel is empty.
WorkerRecv ==
    /\ wk.pc = "recv"
    /\ chan # <<>>
    /\ wk' = [pc |-> "call", cmd |-> recv(chan).cmd]
    /\ chan' = recv(chan).rest
    /\ UNCHANGED <<sent, executed, results, submitter, item_ir>>
    /\ UNCHANGED not_worker_vars

\* WorkerCommand::call, `(self.func)(context)` (72): build_function_ir's
\* closure sets the item's IR (656-662), wait_for_setup's does nothing.
WorkerFunc ==
    /\ wk.pc = "call"
    /\ wk' = [wk EXCEPT !.pc = "store"]
    /\ executed' = Append(executed, wk.cmd)
    /\ item_ir' = IF sent[wk.cmd].name = "build_function_ir"
                  THEN [item_ir EXCEPT ![sent[wk.cmd].item] = TRUE]
                  ELSE item_ir
    /\ UNCHANGED <<chan, sent, results, submitter>>
    /\ UNCHANGED not_worker_vars

\* WorkerCommand::call, `*guard = Some(res)` (73-76)
WorkerStore ==
    /\ wk.pc = "store"
    /\ results' = [results EXCEPT ![wk.cmd].value = "Some"]
    /\ wk' = [wk EXCEPT !.pc = "barrier"]
    /\ UNCHANGED <<chan, sent, executed, submitter, item_ir>>
    /\ UNCHANGED not_worker_vars

\* WorkerCommand::call, `self.result.complete.wait()` (77): the worker
\* arrives at the barrier.
WorkerArrive ==
    /\ wk.pc = "barrier"
    /\ results' = [results EXCEPT ![wk.cmd].arrived = @ + 1]
    /\ wk' = [wk EXCEPT !.pc = "blocked"]
    /\ UNCHANGED <<chan, sent, executed, submitter, item_ir>>
    /\ UNCHANGED not_worker_vars

\* The barrier lets the worker go, and the loop comes back to recv (617).
WorkerLoop ==
    /\ wk.pc = "blocked"
    /\ released(results[wk.cmd])
    /\ wk' = [pc |-> "recv"]
    /\ UNCHANGED <<chan, sent, executed, results, submitter, item_ir>>
    /\ UNCHANGED not_worker_vars

\* RustCWorker::call (632-651) by thread t, from build_function_ir (654) or
\* wait_for_setup (667): the result is made and the command sent, the sender
\* being locked.
WorkerCall(t, kind) ==
    /\ submitter[t].pc = "idle"
    /\ Len(sent) < MaxCmds
    /\ results' = Append(results, NewWorkerResult)
    /\ chan' = Append(chan, Len(sent) + 1)
    /\ sent' = Append(sent, kind)
    /\ submitter' = [submitter EXCEPT ![t] = [pc |-> "handed", cmd |-> Len(sent) + 1]]
    /\ UNCHANGED <<executed, wk, item_ir>>
    /\ UNCHANGED not_worker_vars

\* WorkerResult::wait (52-54) by the thread that was handed the result, in
\* build_function_ir (664) or by the caller of wait_for_setup: the thread
\* arrives at the barrier.
WorkerResult_wait(t) ==
    /\ submitter[t].pc = "handed"
    /\ results' = [results EXCEPT ![submitter[t].cmd].arrived = @ + 1]
    /\ submitter' = [submitter EXCEPT ![t].pc = "blocked"]
    /\ UNCHANGED <<chan, sent, executed, wk, item_ir>>
    /\ UNCHANGED not_worker_vars

\* The barrier lets the thread go: wait returns.
WaitReturns(t) ==
    /\ submitter[t].pc = "blocked"
    /\ released(results[submitter[t].cmd])
    /\ submitter' = [submitter EXCEPT ![t].pc = "waited"]
    /\ UNCHANGED <<chan, sent, executed, results, wk, item_ir>>
    /\ UNCHANGED not_worker_vars

\* build_function_ir returns (665); the caller of wait goes on.
SubmitterReturns(t) ==
    /\ submitter[t].pc = "waited"
    /\ submitter' = [submitter EXCEPT ![t] = IdleSubmitter]
    /\ UNCHANGED <<chan, sent, executed, results, wk, item_ir>>
    /\ UNCHANGED not_worker_vars

WorkerThread ==
    WorkerSetup \/ WorkerRecv \/ WorkerFunc \/ WorkerStore \/ WorkerArrive \/ WorkerLoop

WorkerNext ==
    \/ WorkerThread
    \/ \E t \in Submitters, kind \in CmdKinds : WorkerCall(t, kind)
    \/ \E t \in Submitters : WorkerResult_wait(t)
    \/ \E t \in Submitters : WaitReturns(t)
    \/ \E t \in Submitters : SubmitterReturns(t)

(***************************************************************************)
(* The lazily built parts of an item (items.rs): the IR of a function item  *)
(* that is neither virtual nor a constructor, behind a Mutex<Option>, and   *)
(* the AdtInfo of an ADT item, in a OnceLock.  Threads ask for them.        *)
(***************************************************************************)
MaxRequests == 4

NewItem == [ir |-> <<>>, ir_lock |-> Null, info |-> <<>>]
NoBuilds == [build_ir |-> 0, build_adt |-> 0]

ItemInit ==
    /\ the_item = NewItem
    /\ builds = NoBuilds
    /\ req = [t \in Threads |-> [pc |-> "idle"]]
    /\ observed = {}
    /\ requests = 0

\* Item::ir, `ir.lock().unwrap()` (817): blocks while another thread holds
\* the mutex.
Item_ir(t) ==
    /\ req[t].pc = "idle"
    /\ requests < MaxRequests
    /\ the_item.ir_lock = Null
    /\ the_item' = [the_item EXCEPT !.ir_lock = t]
    /\ req' = [req EXCEPT ![t] = [pc |-> "ir_locked"]]
    /\ requests' = requests + 1
    /\ UNCHANGED <<builds, observed>>
    /\ UNCHANGED not_item_vars

\* Item::ir, the normal IR lookup with the mutex held (818-825): the cached
\* IR, or build_ir's, which is stored; returning drops the guard.
Item_ir_lookup(t) ==
    /\ req[t].pc = "ir_locked"
    /\ IF the_item.ir # <<>>
       THEN /\ the_item' = [the_item EXCEPT !.ir_lock = Null]
            /\ observed' = observed \cup {<<"ir", the_item.ir[1]>>}
            /\ UNCHANGED builds
       ELSE /\ builds' = [builds EXCEPT !.build_ir = @ + 1]
            /\ the_item' = [the_item EXCEPT !.ir = <<builds.build_ir + 1>>, !.ir_lock = Null]
            /\ observed' = observed \cup {<<"ir", builds.build_ir + 1>>}
    /\ req' = [req EXCEPT ![t] = [pc |-> "idle"]]
    /\ UNCHANGED requests
    /\ UNCHANGED not_item_vars

\* Item::adt_info, `info.get()` (911-913): the cached AdtInfo is returned,
\* or the thread goes on to build it.
Item_adt_info(t) ==
    /\ req[t].pc = "idle"
    /\ requests < MaxRequests
    /\ requests' = requests + 1
    /\ IF the_item.info # <<>>
       THEN /\ observed' = observed \cup {<<"adt_info", the_item.info[1]>>}
            /\ UNCHANGED req
       ELSE /\ req' = [req EXCEPT ![t] = [pc |-> "build_adt"]]
            /\ UNCHANGED observed
    /\ UNCHANGED <<the_item, builds>>
    /\ UNCHANGED not_item_vars

\* Item::adt_info, `crate_provider.build_adt(item_id)` (914-917)
Item_build_adt(t) ==
    /\ req[t].pc = "build_adt"
    /\ builds' = [builds EXCEPT !.build_adt = @ + 1]
    /\ req' = [req EXCEPT ![t] = [pc |-> "set_info", new_info |-> builds.build_adt + 1]]
    /\ UNCHANGED <<the_item, observed, requests>>
    /\ UNCHANGED not_item_vars

\* Item::adt_info, `info.set(new_info).ok()` and `info.get().expect(..)`
\* (918-919): a set of a OnceLock that is already set is dropped.
Item_set_info(t) ==
    /\ req[t].pc = "set_info"
    /\ the_item' = IF the_item.info = <<>> THEN [the_item EXCEPT !.info = <<req[t].new_info>>]
                   ELSE the_item
    /\ observed' = observed \cup {<<"adt_info", the_item'.info[1]>>}
    /\ req' = [req EXCEPT ![t] = [pc |-> "idle"]]
    /\ UNCHANGED <<builds, requests>>
    /\ UNCHANGED not_item_vars

ItemNext ==
    \E t \in Threads :
        \/ Item_ir(t)
        \/ Item_ir_lookup(t)
        \/ Item_adt_info(t)
        \/ Item_build_adt(t)
        \/ Item_set_info(t)

(***************************************************************************)
(* The slot stack on its own: any sequence of alloc, align_for_call,        *)
(* push_scope and pop_scope of the innermost open scope.                    *)
(***************************************************************************)
MaxStackOps == 5

\* The types allocated: alignments 1, 4, 8 and 16, a padded tuple, a
\* zero-sized one.
I128Ty == <<"Int", 16>>
StackTys == {U8Ty, IntTy, UsizeTy, I128Ty, T3, UnitTy}

NoStackOp == [op |-> "none"]

StackInit ==
    /\ cs = NewCompiler
    /\ cs_last = NoStackOp
    /\ cs_ops = 0

\* CompilerStack::alloc(ty)
StackAlloc(ty) ==
    /\ cs_ops < MaxStackOps
    /\ cs' = alloc(cs, ty).c
    /\ cs_last' = [op |-> "alloc", ty |-> ty, prev_top |-> cs.stack.top,
                   slot |-> alloc(cs, ty).slot]
    /\ cs_ops' = cs_ops + 1
    /\ UNCHANGED not_stack_vars

\* CompilerStack::align_for_call()
StackAlignForCall ==
    /\ cs_ops < MaxStackOps
    /\ cs' = align_for_call(cs).c
    /\ cs_last' = [op |-> "align_for_call", prev_top |-> cs.stack.top,
                   slot |-> align_for_call(cs).slot]
    /\ cs_ops' = cs_ops + 1
    /\ UNCHANGED not_stack_vars

\* CompilerStack::push_scope(name)
StackPushScope ==
    /\ cs_ops < MaxStackOps
    /\ cs' = push_scope(cs).c
    /\ cs_last' = [op |-> "push_scope", scope |-> push_scope(cs).scope]
    /\ cs_ops' = cs_ops + 1
    /\ UNCHANGED not_stack_vars

\* CompilerStack::pop_scope(scope), the scope being the innermost open one.
StackPopScope ==
    /\ cs_ops < MaxStackOps
    /\ cs.scopes # <<>>
    /\ cs' = pop_scope(cs, cs.scopes[Len(cs.scopes)])
    /\ cs_last' = [op |-> "pop_scope", scope |-> cs.scopes[Len(cs.scopes)]]
    /\ cs_ops' = cs_ops + 1
    /\ UNCHANGED not_stack_vars

StackNext ==
    \/ \E ty \in StackTys : StackAlloc(ty)
    \/ StackAlignForCall
    \/ StackPushScope
    \/ StackPopScope

(***************************************************************************)
(* Unification on its own: trait_match of one receiver type against one    *)
(* candidate type.                                                          *)
(***************************************************************************)
\* The concrete receiver types.
MatchLhs ==
    {IntTy, BoolTy, <<"Str">>, RefTy(IntTy, "Const"), RefTy(IntTy, "Mut"),
     ArrayTy(IntTy), ArrayTy(BoolTy), <<"Slice", IntTy>>,
     TupleTy(<<IntTy, IntTy>>), TupleTy(<<IntTy, BoolTy>>), TupleTy(<<>>),
     AdtTy("Pair", <<>>), AdtTy("Vec", <<IntTy>>)}

\* The candidate types: for-types of impls, over the parameters T0 and T1.
MatchRhs ==
    {IntTy, ParamTy(0), RefTy(ParamTy(0), "Const"), ArrayTy(IntTy), ArrayTy(ParamTy(0)),
     <<"Slice", ParamTy(0)>>, TupleTy(<<ParamTy(0), ParamTy(1)>>),
     TupleTy(<<ParamTy(0), ParamTy(0)>>), TupleTy(<<IntTy, ParamTy(0)>>),
     AdtTy("Vec", <<ParamTy(0)>>), AdtTy("Pair", <<>>)}

NoMatch == [status |-> "none"]

MatchInit == match_res = NoMatch

\* trait_match(<<lhs>>, <<rhs>>) (items.rs 1249-1257): a fresh SubMap, then
\* subs_match.
TraitMatch(lhs_ty, rhs_ty) ==
    /\ match_res.status = "none"
    /\ match_res' = [status |-> "done", lhs |-> lhs_ty, rhs |-> rhs_ty,
                     res |-> trait_match(<<lhs_ty>>, <<rhs_ty>>)]
    /\ UNCHANGED not_match_vars

MatchNext == \E lhs_ty \in MatchLhs, rhs_ty \in MatchRhs : TraitMatch(lhs_ty, rhs_ty)

(***************************************************************************)
(* Child closures (items.rs 885-904, vm.rs 217-221): a closure is named by  *)
(* the item it is written in and by its path indices inside the item.       *)
(***************************************************************************)
MaxChildCalls == 3

\* The items that contain closures: two functions and a constant.
ChildItems == {[kind |-> "Function", id |-> 1], [kind |-> "Function", id |-> 2],
               [kind |-> "Constant", id |-> 3]}
PathIndices == {<<0>>, <<1>>, <<0, 1>>}

ChildInit ==
    /\ closures = [i \in {it.id : it \in ChildItems} |-> {}]
    /\ next_closure_id = 0
    /\ child_calls = <<>>

\* VM::alloc_closure (vm.rs 217-221): next_closure_id.fetch_add(1).
alloc_closure == [unique_id |-> next_closure_id, next |-> next_closure_id + 1]

\* Item::child_closure (items.rs 885-904): a function looks the path up in
\* its map under the lock and allocates on a miss; a constant allocates.
child_closure(it, path_indices) ==
    LET hits == {e \in closures[it.id] : e.path = path_indices} IN
    IF it.kind = "Function"
    THEN IF hits # {}
         THEN [closure |-> (CHOOSE e \in hits : TRUE).closure, closures |-> closures[it.id],
               next |-> next_closure_id]
         ELSE [closure |-> alloc_closure.unique_id,
               closures |-> closures[it.id]
                            \cup {[path |-> path_indices, closure |-> alloc_closure.unique_id]},
               next |-> alloc_closure.next]
    ELSE [closure |-> alloc_closure.unique_id, closures |-> closures[it.id],
          next |-> alloc_closure.next]

\* One call of child_closure by some thread: the lock is held from the
\* lookup to the insertion, and the id comes from one atomic fetch_add.
ChildClosure(it, path_indices) ==
    /\ Len(child_calls) < MaxChildCalls
    /\ closures' = [closures EXCEPT ![it.id] = child_closure(it, path_indices).closures]
    /\ next_closure_id' = child_closure(it, path_indices).next
    /\ child_calls' = Append(child_calls,
                             [item |-> it.id, path |-> path_indices,
                              closure |-> child_closure(it, path_indices).closure])
    /\ UNCHANGED not_child_vars

ChildNext == \E it \in ChildItems, path_indices \in PathIndices : ChildClosure(it, path_indices)

(***************************************************************************)
(* Constants (items.rs 855-875): const_value keeps the bytes of a constant  *)
(* per substitution list in a map behind a mutex, and evaluates a missing   *)
(* entry inside or_insert_with, the mutex held.  Compiling the constant's   *)
(* body calls const_value for every constant the body names                 *)
(* (bytecode_compiler.rs 1334-1353).                                        *)
(***************************************************************************)
NumConstThreads == 2
MaxConstCalls == 3
ConstThreads == 1..NumConstThreads

\* The constants of the program.  N is an associated constant of a trait,
\* a virtual item whose IR is that of the impl for the type in subs
\* (items.rs 804-813): the impl for u8 is a literal, the impl for u16 is
\* <u8 as Tr>::N + 1, the impl for u32 is <u16 as Tr>::N + 1.  K is a plain
\* constant, N at u8 doubled.
ConstItems == {"N", "K"}
ConstSubs(it) == IF it = "N" THEN {<<"u8">>, <<"u16">>, <<"u32">>} ELSE {<<>>}
ConstRef(it, subs) == [item |-> it, subs |-> subs]

\* The constants the body of a constant names, in the order it is compiled.
const_deps(it, subs) ==
    CASE it = "N" /\ subs = <<"u8">> -> <<>>
      [] it = "N" /\ subs = <<"u16">> -> <<ConstRef("N", <<"u8">>)>>
      [] it = "N" /\ subs = <<"u32">> -> <<ConstRef("N", <<"u16">>)>>
      [] it = "K" -> <<ConstRef("N", <<"u8">>)>>

\* The value run_bytecode leaves, from the values of the constants named.
const_run(it, subs, vals) ==
    CASE it = "N" /\ subs = <<"u8">> -> 1
      [] it = "N" -> vals[1] + 1
      [] it = "K" -> vals[1] * 2

ConstFrame(it, subs) == [item |-> it, subs |-> subs, pc |-> "lock", vals |-> <<>>]

ConstInit ==
    /\ const_lock = [it \in ConstItems |-> 0]
    /\ mono_values = [it \in ConstItems |-> {}]
    /\ const_thread = [t \in ConstThreads |-> [status |-> "idle", stack |-> <<>>]]
    /\ const_evals = <<>>
    /\ const_returns = <<>>

\* The frame a thread is in, and the thread with that frame replaced.
TopFrame(t) == const_thread[t].stack[Len(const_thread[t].stack)]
WithTop(t, frame) ==
    [const_thread EXCEPT ![t].stack[Len(const_thread[t].stack)] = frame]

\* A thread calls item.const_value(subs).
ConstValueCall(t, it, subs) ==
    /\ const_thread[t].status = "idle"
    /\ Len(const_evals) + Len(const_returns) < MaxConstCalls
    /\ const_thread' = [const_thread EXCEPT ![t] = [status |-> "running",
                                                    stack |-> <<ConstFrame(it, subs)>>]]
    /\ UNCHANGED <<const_lock, mono_values, const_evals, const_returns>>
    /\ UNCHANGED not_const_vars

\* mono_values.lock().unwrap() (859): the mutex is free and is taken, or it
\* is held by another thread and the call waits, or it is held by this very
\* thread: std::sync::Mutex::lock then never returns, it deadlocks or panics.
lock_outcomes(holder, t) ==
    IF holder = 0 THEN {"acquired"}
    ELSE IF holder = t THEN {"deadlock", "panic"}
    ELSE {}

ConstValueLock(t) ==
    /\ const_thread[t].status = "running"
    /\ TopFrame(t).pc = "lock"
    /\ \E outcome \in lock_outcomes(const_lock[TopFrame(t).item], t) :
          IF outcome = "acquired"
          THEN /\ const_lock' = [const_lock EXCEPT ![TopFrame(t).item] = t]
               /\ const_thread' = WithTop(t, [TopFrame(t) EXCEPT !.pc = "entry"])
          ELSE /\ const_thread' = [const_thread EXCEPT ![t].status = outcome]
               /\ UNCHANGED const_lock
    /\ UNCHANGED <<mono_values, const_evals, const_returns>>
    /\ UNCHANGED not_const_vars

\* The caller of the frame that returns bytes: the frame below takes the
\* value, or the thread is back from its outermost call.
ConstReturn(t, bytes) ==
    LET f == TopFrame(t)
        stack == const_thread[t].stack
        n == Len(stack)
    IN IF n = 1
       THEN /\ const_thread' = [const_thread EXCEPT ![t] = [status |-> "idle",
                                                            stack |-> <<>>]]
            /\ const_returns' = Append(const_returns, <<f.item, f.subs, bytes>>)
       ELSE /\ const_thread' =
                [const_thread EXCEPT ![t].stack =
                    Append(SubSeq(stack, 1, n - 2),
                           [stack[n - 1] EXCEPT !.vals = Append(@, bytes)])]
            /\ UNCHANGED const_returns

\* mono_values.entry(subs): an entry is there and is returned, the guard is
\* dropped; or the entry is vacant and or_insert_with runs the closure.
ConstValueEntry(t) ==
    /\ const_thread[t].status = "running"
    /\ TopFrame(t).pc = "entry"
    /\ LET f == TopFrame(t)
           hits == {e \in mono_values[f.item] : e[1] = f.subs}
       IN IF hits # {}
          THEN /\ ConstReturn(t, (CHOOSE e \in hits : TRUE)[2])
               /\ const_lock' = [const_lock EXCEPT ![f.item] = 0]
               /\ UNCHANGED const_evals
          ELSE /\ const_thread' = WithTop(t, [f EXCEPT !.pc = "compile"])
               /\ const_evals' = Append(const_evals, <<f.item, f.subs>>)
               /\ UNCHANGED <<const_lock, const_returns>>
    /\ UNCHANGED mono_values
    /\ UNCHANGED not_const_vars

\* BytecodeCompiler::compile of the body (862-864): the next constant the
\* body names is asked for its value.
ConstValueCompile(t) ==
    /\ const_thread[t].status = "running"
    /\ TopFrame(t).pc = "compile"
    /\ LET f == TopFrame(t)
           deps == const_deps(f.item, f.subs)
       IN /\ Len(f.vals) < Len(deps)
          /\ const_thread' = [const_thread EXCEPT ![t].stack =
                                Append(@, ConstFrame(deps[Len(f.vals) + 1].item,
                                                     deps[Len(f.vals) + 1].subs))]
    /\ UNCHANGED <<const_lock, mono_values, const_evals, const_returns>>
    /\ UNCHANGED not_const_vars

\* run_bytecode, copy_result and alloc_constant (866-871): the entry is
\* inserted and returned, the guard is dropped.
ConstValueInsert(t) ==
    /\ const_thread[t].status = "running"
    /\ TopFrame(t).pc = "compile"
    /\ LET f == TopFrame(t)
           bytes == const_run(f.item, f.subs, f.vals)
       IN /\ Len(f.vals) = Len(const_deps(f.item, f.subs))
          /\ mono_values' = [mono_values EXCEPT ![f.item] = @ \cup {<<f.subs, bytes>>}]
          /\ const_lock' = [const_lock EXCEPT ![f.item] = 0]
          /\ ConstReturn(t, bytes)
    /\ UNCHANGED const_evals
    /\ UNCHANGED not_const_vars

ConstNext ==
    \/ \E t \in ConstThreads, it \in ConstItems :
          \E subs \in ConstSubs(it) : ConstValueCall(t, it, subs)
    \/ \E t \in ConstThreads : ConstValueLock(t)
    \/ \E t \in ConstThreads : ConstValueEntry(t)
    \/ \E t \in ConstThreads : ConstValueCompile(t)
    \/ \E t \in ConstThreads : ConstValueInsert(t)

(***************************************************************************)
(* Control flow: functions whose bodies are loops with break and continue, *)
(* compiled by BytecodeCompiler::compile and run by run_bytecode one       *)
(* instruction at a time.                                                  *)
(***************************************************************************)
MaxSteps == 40

LoopIds == {1, 2}
Unit(stmts) == E_Block(stmts, <<>>, UnitTy)
P0Lt2 == E_Binary("Lt", P0, E_Lit(2, IntTy), BoolTy)
P0Inc == E_Assign(P0, E_Binary("Add", P0, E_Lit(1, IntTy), IntTy))

\* loop { if c { break a }  break b }
ValueLoops ==
    {E_Loop(Unit(<<S_Expr(E_If(c, E_Break(1, <<a>>), <<>>, UnitTy)),
                   S_Expr(E_Break(1, <<b>>))>>), 1, IntTy) :
        c \in Conds, a \in IntAtoms, b \in {E_Lit(2, IntTy), P0}}

\* loop { if p0 < 2 { p0 = p0 + 1 } else { break p0 } }, and the same
\* loop with a continue as its last statement
CountLoops ==
    {E_Loop(Unit(<<S_Expr(E_If(P0Lt2, P0Inc, <<E_Break(1, <<P0>>)>>, UnitTy))>> \o tail),
            1, IntTy) : tail \in {<<>>, <<S_Expr(E_Continue(1))>>}}

\* 'a: loop { loop { if c { exit1 } else { exit2 } }  break 'a b }, the
\* exits being breaks and continues of either loop
LoopExits ==
    {E_Break(1, <<a>>) : a \in IntAtoms}
    \cup {E_Break(2, <<>>), E_Continue(1), E_Continue(2)}
NestedLoops ==
    {E_Loop(Unit(<<S_Expr(E_Loop(Unit(<<S_Expr(E_If(c, x1, <<x2>>, UnitTy))>>), 2, UnitTy)),
                   S_Expr(E_Break(1, <<E_Lit(2, IntTy)>>))>>), 1, IntTy) :
        c \in {Conds_i \in Conds : Conds_i.kind = "Binary"}, x1 \in LoopExits, x2 \in LoopExits}

\* The patterns of the match arms: on an i32, a literal, a wildcard, a
\* binding or an or-pattern; on an (i32, i32), a pattern per field.
ArmPatterns ==
    {P_Lit(3, IntTy), P_Lit(7, IntTy), P_Hole(IntTy), P_Bind(3, IntTy),
     P_Or(<<P_Lit(1, IntTy), P_Lit(3, IntTy)>>, IntTy),
     P_Or(<<P_Lit(1, IntTy), P_Hole(IntTy)>>, IntTy)}
PairPattern(q0, q1) ==
    P_Struct(<<[field |-> 0, pattern |-> q0], [field |-> 1, pattern |-> q1]>>, T2)
Guards == {<<>>, <<P0Lt2>>}

\* match p1 { (q0, q1) if g => 10, (7, _) | (_, 3) => 20, _ => 30 } and
\* match p0 { q if g => 10, 3 => 20, _ => 30 }
PairMatches ==
    {E_Match(P1, <<Arm(PairPattern(q0, q1), g, E_Lit(10, IntTy)),
                   Arm(P_Or(<<PairPattern(P_Lit(7, IntTy), P_Hole(IntTy)),
                              PairPattern(P_Hole(IntTy), P_Lit(3, IntTy))>>, T2),
                       <<>>, E_Lit(20, IntTy)),
                   Arm(P_Hole(T2), <<>>, E_Lit(30, IntTy))>>, IntTy) :
        q0 \in ArmPatterns, q1 \in ArmPatterns, g \in Guards}
IntMatches ==
    {E_Match(P0, <<Arm(q, g, E_Lit(10, IntTy)),
                   Arm(P_Lit(3, IntTy), <<>>, E_Lit(20, IntTy)),
                   Arm(P_Hole(IntTy), <<>>, E_Lit(30, IntTy))>>, IntTy) :
        q \in ArmPatterns, g \in Guards}
Matches == PairMatches \cup IntMatches

\* Functions f(p0: i32, v: T) for every pattern of the pattern catalog, T
\* being the pattern's type: match v { pat => 10, _ => 30 } on its own, as
\* the branch of an if, and, for the integer and range patterns, as the
\* body of a loop that an arm leaves.
Scrutinee(pat) == E_Var(9, pat.ty)
PatternParams(pat) == <<P_Bind(1, IntTy), P_Bind(9, pat.ty)>>
MatchOn(pat, body) ==
    E_Match(Scrutinee(pat), <<Arm(pat, <<>>, body),
                              Arm(P_Hole(pat.ty), <<>>, E_Lit(30, IntTy))>>, IntTy)
PatternBodies(pat) ==
    {MatchOn(pat, E_Lit(10, IntTy)),
     E_If(P0Lt2, MatchOn(pat, E_Lit(10, IntTy)), <<E_Lit(1, IntTy)>>, IntTy)}
    \cup {E_Loop(Unit(<<S_Expr(MatchOn(q, E_Break(1, <<E_Lit(10, IntTy)>>)))>>), 1, IntTy) :
            q \in {pat} \cap (IntPatterns \cup RangePatterns)}

\* { let e = <variant v of enum>; match e { <variant w> => .., _ => 30 } }:
\* the field of Some is p0, the pattern of Some binds it and the arm gives
\* it back; the arm of None gives 10.
NzTy == AdtTy("Nz", <<>>)
VariantLiteral(v, ty) == E_Variant(v, IF v = 1 THEN <<<<0, P0>>>> ELSE <<>>, ty)
VariantPattern(w, ty) ==
    P_Enum(IF w = 1 THEN <<[field |-> 0, pattern |-> P_Bind(3, IntTy)]>> ELSE <<>>, w, ty)
EnumTrip(v, w, ty) ==
    E_Block(<<S_Let(P_Bind(5, ty), VariantLiteral(v, ty))>>,
            <<E_Match(E_Var(5, ty),
                      <<Arm(VariantPattern(w, ty), <<>>,
                            IF w = 1 THEN E_Var(3, IntTy) ELSE E_Lit(10, IntTy)),
                        Arm(P_Hole(ty), <<>>, E_Lit(30, IntTy))>>, IntTy)>>,
            IntTy)
EnumTrips == {EnumTrip(v, w, ty) : v \in 0..1, w \in 0..1, ty \in {OptTy, NzTy}}

\* Pair(a, b).i, Pair the constructor of the struct of two integers: a is
\* p0, p0 + 0 or p1.0, and b is 1, { p0 = 5; 1 } or { p1.0 = 5; 1 }.
FirstArgs == {P0, E_Binary("Add", P0, E_Lit(0, IntTy), IntTy), E_Field(P1, 0, IntTy)}
AssignThen1(place) ==
    E_Block(<<S_Expr(E_Assign(place, E_Lit(5, IntTy)))>>, <<E_Lit(1, IntTy)>>, IntTy)
SecondArgs == {E_Lit(1, IntTy), AssignThen1(P0), AssignThen1(E_Field(P1, 0, IntTy))}
CallFields ==
    {E_Field(E_Call("Pair", <<a, b>>, PairTy), i, IntTy) :
        a \in FirstArgs, b \in SecondArgs, i \in 0..1}

\* { let mut p = &p0; let q = init; [p = &p1.0;] *q }, init being &*p, p
\* or &p0.
IntRefTy == RefTy(IntTy, "Const")
RefP == E_Var(5, IntRefTy)
RefQ == E_Var(6, IntRefTy)
Reborrow == E_Ref(E_DeRef(RefP, IntTy), IntRefTy)
RefInits == {Reborrow, RefP, E_Ref(P0, IntRefTy)}
AssignP == S_Expr(E_Assign(RefP, E_Ref(E_Field(P1, 0, IntTy), IntRefTy)))
RefBlocks ==
    {E_Block(<<S_Let(P_Bind(5, IntRefTy), E_Ref(P0, IntRefTy)),
               S_Let(P_Bind(6, IntRefTy), init)>> \o assign,
             <<E_DeRef(RefQ, IntTy)>>, IntTy) :
        init \in RefInits, assign \in {<<>>, <<AssignP>>}}

FlowBodies == ValueLoops \cup CountLoops \cup NestedLoops \cup Matches \cup EnumTrips
                \cup CallFields \cup RefBlocks
FlowFunctions ==
    {IRFunction(StdParams, b, IntTy) : b \in FlowBodies}
    \cup UNION {{IRFunction(PatternParams(pat), b, IntTy) : b \in PatternBodies(pat)} :
                   pat \in Patterns}

FlowArgs == {<<1, <<3, 7>>>>, <<3, <<3, 7>>>>, <<7, <<1, 7>>>>, <<1, <<7, 3>>>>}

IdleFlow == [status |-> "idle", pc |-> 0, mem |-> ZeroMem, args |-> <<>>,
             visited |-> {}, steps |-> 0]

FlowInit ==
    /\ flow_ir = NoFunction
    /\ flow_comp = NotCompiled
    /\ flow_vm = IdleFlow

\* BytecodeCompiler::compile on one of the functions.
FlowCompile(ir) ==
    /\ flow_comp.status = "none"
    /\ flow_ir' = ir
    /\ flow_comp' = compile(ir)
    /\ flow_vm' = IdleFlow
    /\ UNCHANGED not_flow_vars

\* VMThread::call (vm.rs 65-78) on a compiled function of the standard
\* parameters.
FlowCall(args) ==
    /\ flow_vm.status = "idle"
    /\ Ok(flow_comp)
    /\ flow_ir.params = StdParams
    /\ flow_vm' = [IdleFlow EXCEPT !.status = "running",
                                   !.mem = write_args(ZeroMem, flow_ir, args),
                                   !.args = args]
    /\ UNCHANGED <<flow_ir, flow_comp>>
    /\ UNCHANGED not_flow_vars

\* run_bytecode (vm.rs 85-89): one turn of the loop.
FlowStep ==
    /\ flow_vm.status = "running"
    /\ flow_vm.steps < MaxSteps
    /\ flow_vm' = IF flow_vm.pc < 0 \/ flow_vm.pc >= Len(flow_comp.out_bc)
                  THEN [flow_vm EXCEPT !.status = "out of bounds"]
                  ELSE [exec(flow_comp.out_bc[flow_vm.pc + 1], flow_vm) EXCEPT
                            !.visited = @ \cup {flow_vm.pc}, !.steps = @ + 1]
    /\ UNCHANGED <<flow_ir, flow_comp>>
    /\ UNCHANGED not_flow_vars

FlowNext ==
    \/ \E ir \in FlowFunctions : FlowCompile(ir)
    \/ \E args \in FlowArgs : FlowCall(args)
    \/ FlowStep

(***************************************************************************)
(* Specifications: one per part of the program, over the same variables.   *)
(***************************************************************************)
Init == MonoInit /\ TraitInit /\ CompileInit /\ LowerInit /\ ClosureInit /\ WorkerInit /\ ItemInit /\ StackInit /\ MatchInit /\ ChildInit /\ ConstInit /\ FlowInit

SpecMono == Init /\ [][MonoNext]_vars

SpecTrait == Init /\ [][TraitNext]_vars

SpecBuiltin == Init /\ [][BuiltinNext]_vars

SpecCompile == Init /\ [][CompileNext]_vars

SpecLower == Init /\ [][LowerNext]_vars

SpecClosure == Init /\ [][ClosureNext]_vars

SpecWorker == Init /\ [][WorkerNext]_vars

SpecItem == Init /\ [][ItemNext]_vars

SpecStack == Init /\ [][StackNext]_vars

SpecMatch == Init /\ [][MatchNext]_vars

SpecChild == Init /\ [][ChildNext]_vars

SpecConst == Init /\ [][ConstNext]_vars

SpecFlow == Init /\ [][FlowNext]_vars

\* The worker thread and the threads blocked in or about to call wait are
\* scheduled: the operating system runs every thread that can run, and a
\* thread that was handed a result calls wait on it.
SpecWorkerFair ==
    /\ SpecWorker
    /\ WF_vars(WorkerThread)
    /\ \A t \in Submitters :
          WF_vars(WorkerResult_wait(t) \/ WaitReturns(t) \/ SubmitterReturns(t))

(***************************************************************************)
(* What it means for a candidate to apply, stated without the matcher: an  *)
(* impl applies to a query when some assignment of concrete types to its   *)
(* parameters makes its for-types equal to the query and makes every bound *)
(* true.  A Trait bound is true when the bounded trait has an applicable   *)
(* impl; a Projection bound is true when the associated type of the first  *)
(* applicable impl equals the bound's type.                                *)
(***************************************************************************)
Assignments(generics) == [1..generics -> QueryTys]

Lowest(S) == CHOOSE i \in S : \A j \in S : i <= j

RECURSIVE SpecApplies(_, _, _)
RECURSIVE SpecBoundHolds(_, _)

SpecApplicable(trait, for_tys) ==
    {j \in DOMAIN impl_list[trait] : SpecApplies(trait, j, for_tys)}

SpecAssocTy(trait, j, member_index, for_tys) ==
    LET c == impl_list[trait][j]
        a == CHOOSE a \in Assignments(c.generics) : subs_sub(c.for_types, a) = for_tys
    IN ty_sub(c.assoc_values[member_index + 1].ty, a)

SpecBoundHolds(bound, a) ==
    LET tys == subs_sub(bound.subs, a)
        J == SpecApplicable(bound.item, tys)
    IN /\ J # {}
       /\ bound.kind = "Projection" =>
            /\ impl_list[bound.item][Lowest(J)].assoc_values[bound.member + 1].kind = "Type"
            /\ SpecAssocTy(bound.item, Lowest(J), bound.member, tys) = ty_sub(bound.eq_ty, a)

SpecApplies(trait, j, for_tys) ==
    LET c == impl_list[trait][j] IN
    \E a \in Assignments(c.generics) :
        /\ subs_sub(c.for_types, a) = for_tys
        /\ \A k \in DOMAIN c.bounds : SpecBoundHolds(c.bounds[k], a)

\* C6: a find_trait_impl call for which some candidate applies hands the
\* callback the applicable candidate of lowest index (candidates before it,
\* among them those with a failing Trait bound, are passed over).
C6_FirstApplicable ==
    trait_res.trait # NoTrait =>
        LET A == SpecApplicable(trait_res.trait, trait_res.for_tys) IN
        A # {} => /\ trait_res.res.tag = "Some"
                  /\ trait_res.res.index = Lowest(A)

\* C7: a find_trait_impl call for which no candidate applies returns None,
\* without a panic and without invoking the callback.
C7_NoneWhenNoCandidate ==
    trait_res.trait # NoTrait =>
        (SpecApplicable(trait_res.trait, trait_res.for_tys) = {}
            => trait_res.res = None)

(***************************************************************************)
(* The meaning of the IR, independent of the compiler: an expression is    *)
(* evaluated to a value (an integer, a boolean, or the sequence of the     *)
(* fields of a tuple or struct) in a store of the locals.  A store is      *)
(* [env, ret]: ret is <<>> until a `return v` has run, then <<v>>, and     *)
(* nothing is evaluated after that.                                        *)
(***************************************************************************)
V(st, val) == [st |-> st, val |-> val]
Returned(st) == st.ret # <<>>

RECURSIVE set_place(_, _, _)
\* The value of a local after place := v; a place is a path of field indexes.
set_place(old, path, v) ==
    IF path = <<>> THEN v
    ELSE [old EXCEPT ![path[1] + 1] = set_place(old[path[1] + 1], Tail(path), v)]

RECURSIVE place_path(_)
\* The local and the field path a place expression names.
place_path(e) ==
    IF e.kind = "VarRef" THEN [local_id |-> e.local_id, path |-> <<>>]
    ELSE LET p == place_path(e.lhs) IN [p EXCEPT !.path = Append(@, e.field)]

RECURSIVE Ev(_, _)
RECURSIVE EvSeq(_, _, _, _)
RECURSIVE EvStmts(_, _, _)

\* The expressions es[i..] in order, their values appended to vals.
EvSeq(es, i, st, vals) ==
    IF i > Len(es) \/ Returned(st) THEN V(st, vals)
    ELSE LET r == Ev(es[i], st) IN EvSeq(es, i + 1, r.st, Append(vals, r.val))

\* The statements stmts[i..] of a block.
EvStmts(stmts, i, st) ==
    IF i > Len(stmts) \/ Returned(st) THEN st
    ELSE IF stmts[i].kind = "Let"
    THEN LET r == Ev(stmts[i].init, st) IN
         EvStmts(stmts, i + 1,
                 IF Returned(r.st) THEN r.st
                 ELSE [r.st EXCEPT !.env[stmts[i].pattern.local_id] = r.val])
    ELSE EvStmts(stmts, i + 1, Ev(stmts[i].expr, st).st)

Ev(e, st) ==
    IF Returned(st) THEN V(st, 0)
    ELSE
    CASE e.kind = "LiteralValue" -> V(st, e.n)
      [] e.kind = "LiteralVoid" -> V(st, <<>>)
      [] e.kind = "VarRef" -> V(st, st.env[e.local_id])
      [] e.kind = "Field" ->
            LET l == Ev(e.lhs, st) IN
            V(l.st, IF Returned(l.st) THEN 0 ELSE l.val[e.field + 1])
      [] e.kind = "Tuple" -> EvSeq(e.fields, 1, st, <<>>)
      [] e.kind = "Adt" ->
            LET r == EvSeq([i \in DOMAIN e.fields |-> e.fields[i][2]], 1, st, <<>>) IN
            V(r.st, IF Returned(r.st) THEN 0
                    ELSE [f \in DOMAIN e.fields |->
                            r.val[CHOOSE i \in DOMAIN e.fields : e.fields[i][1] = f - 1]])
      [] e.kind = "Call" -> EvSeq(e.args, 1, st, <<>>)
      [] e.kind = "Binary" ->
            LET l == Ev(e.lhs, st)
                r == Ev(e.rhs, l.st)
            IN V(r.st, IF Returned(r.st) THEN 0
                       ELSE CASE e.op = "Add" -> l.val + r.val
                              [] e.op = "Lt" -> l.val < r.val
                              [] e.op = "Gt" -> l.val > r.val
                              [] e.op = "Eq" -> l.val = r.val)
      [] e.kind = "LogicOp" ->
            LET l == Ev(e.lhs, st) IN
            IF Returned(l.st) THEN l
            ELSE IF e.op = "And" THEN (IF l.val THEN Ev(e.rhs, l.st) ELSE l)
            ELSE (IF l.val THEN l ELSE Ev(e.rhs, l.st))
      [] e.kind = "If" ->
            LET c == Ev(e.cond, st) IN
            IF Returned(c.st) THEN c
            ELSE IF c.val THEN Ev(e.then, c.st)
            ELSE IF e.else_opt # <<>> THEN Ev(e.else_opt[1], c.st)
            ELSE V(c.st, <<>>)
      [] e.kind = "Block" ->
            LET after == EvStmts(e.stmts, 1, st) IN
            IF e.result # <<>> THEN Ev(e.result[1], after) ELSE V(after, <<>>)
      [] e.kind = "Assign" ->
            LET r == Ev(e.rhs, st)
                p == place_path(e.lhs)
            IN V(IF Returned(r.st) THEN r.st
                 ELSE [r.st EXCEPT !.env[p.local_id] = set_place(@, p.path, r.val)],
                 <<>>)
      [] e.kind = "Return" ->
            IF e.value = <<>> THEN V([st EXCEPT !.ret = <<<<>>>>], 0)
            ELSE LET r == Ev(e.value[1], st) IN
                 V(IF Returned(r.st) THEN r.st ELSE [r.st EXCEPT !.ret = <<r.val>>], 0)

\* The locals the programs use; a local that is not bound yet holds 0.
LocalIds == 1..5

\* What a call of the function returns: the value of a `return`, or else
\* the value of the body.
FnResult(ir, args) ==
    LET st0 == [env |-> [l \in LocalIds |-> IF l <= Len(args) THEN args[l] ELSE 0],
                ret |-> <<>>]
        r == Ev(ir.root_expr, st0)
    IN IF Returned(r.st) THEN r.st.ret[1] ELSE r.val

\* A byte of padding, which holds no part of the value.
Pad == -1

RECURSIVE Encode(_, _)
\* The bytes of a value of the type, as laid out in memory.
Encode(val, ty) ==
    CASE ty[1] = "Int" -> const_bytes(val, ty[2])
      [] ty[1] = "Bool" -> <<IF val THEN 1 ELSE 0>>
      [] OTHER ->
            LET l == layout(ty)
                tys == field_tys(ty)
                at(b) == {i \in DOMAIN tys : /\ b >= l.field_offsets[i]
                                             /\ b < l.field_offsets[i] + layout(tys[i]).size}
            IN [b1 \in 1..l.size |->
                    IF at(b1 - 1) = {} THEN Pad
                    ELSE LET i == CHOOSE j \in at(b1 - 1) : TRUE IN
                         Encode(val[i], tys[i])[b1 - l.field_offsets[i]]]

\* The bytes at the slot hold the value: every byte that is not padding.
Holds(mem, slot, val, ty) ==
    LET want == Encode(val, ty) IN
    \A i \in DOMAIN want : want[i] # Pad => mem[slot + i - 1] = want[i]

\* C4: in the bytecode compile produces the return slot is slot 0, the
\* first slot allocated, and whenever a run reaches a Return (the final one
\* or that of an explicit `return value`) slot 0 holds the function's result.
C4_ReturnSlotHoldsResult ==
    /\ comp.status = "ok" =>
            /\ comp.allocs[1] = [ty |-> cfunc.output, base |-> 0, checked |-> FALSE]
            /\ comp.out_bc[Len(comp.out_bc)] = I_Return
    /\ vmt.status = "returned" =>
            Holds(vmt.mem, 0, FnResult(cfunc, vmt.args), cfunc.output)

\* A run that started from stale memory has returned from an explicit
\* `return value`, before the final Return.
C4_Witness ==
    /\ vmt.status = "returned"
    /\ vmt.pc < Len(comp.out_bc) - 1
    /\ vmt.mem[63] # 0
    /\ cfunc.output = T2

\* C9: the program of test/4_alloc/drop_struct.rs (a struct of two fields
\* with destructors is built, one field is assigned, then the whole struct
\* is assigned) compiles successfully.
C9_DropStructCompiles ==
    cfunc = DropStructMain => comp.status = "ok"

C5_IrrefutableLeavesResultSlot ==
    matched.status = "done" /\ matched.compiled /\ ~matched.refutable =>
        \A i \in DOMAIN matched.out_bc : matched.result_slot \notin writes(matched.out_bc[i])

\* The destination of the lowering is a slot the stack has handed out, and
\* it shares no byte with a parameter the expression reads.
DstApart ==
    /\ lowered.dst_live
    /\ slot_bytes(lowered.dst, lowered.expr.ty) \cap lowered.reads = {}

\* C8 as stated: for every side-effect-free expression and every slot d,
\* lower_expr(E, Some(d)) returns d and its code leaves at d the same bytes
\* as lower_expr(E, None) followed by a copy of the returned slot to d.
C8_SameBytesAnySlot ==
    lowered.status = "done" /\ lowered.compiled =>
        /\ lowered.slot = lowered.dst
        /\ \A a \in slot_bytes(lowered.dst, lowered.expr.ty) :
                lowered.mem_dst[a] = lowered.mem_copy[a]

\* C8, amended: lower_expr(E, Some(d)) returns d; when d is a slot the stack
\* has handed out and shares no byte with a local E reads, its code leaves
\* at d the same value as lower_expr(E, None) followed by a copy to d: the
\* same byte at every offset of the type that is not padding.
C8_SameValueApartSlot ==
    lowered.status = "done" /\ lowered.compiled =>
        /\ lowered.slot = lowered.dst
        /\ DstApart =>
                \A i \in value_bytes(lowered.expr.ty) :
                    lowered.mem_dst[lowered.dst + i] = lowered.mem_copy[lowered.dst + i]

\* A padded tuple was lowered into a slot apart from what it reads, and the
\* two ways left different bytes in the padding of the slot.
C8_Witness ==
    /\ lowered.status = "done" /\ lowered.compiled /\ DstApart
    /\ lowered.expr.kind = "Tuple" /\ lowered.expr.ty = T3
    /\ lowered.mem_dst[lowered.dst + 1] # lowered.mem_copy[lowered.dst + 1]


\* C11: in every call that build_call builds, the frame base is a multiple
\* of 16, the return slot is the frame base, and argument i is copied, at
\* the size of the callee's parameter i, to the offset from the base that
\* the callee's compile() gave parameter i - also in a virtual call, whose
\* argument 0 is the receiver's thin pointer.
C11_CallerFrameIsCalleeFrame ==
    (called.status = "done" /\ called.compiled) =>
        /\ called.callee_compiled
        /\ called.call.op \in {"Call", "CallPtr"}
        /\ called.call.frame % 16 = 0
        /\ called.ret_slot = called.call.frame
        /\ Len(called.copies) = Len(called.callee_slots)
        /\ \A i \in DOMAIN called.copies :
              /\ called.copies[i].op = "MovSS"
              /\ called.copies[i].dst - called.call.frame = called.callee_slots[i]
              /\ called.copies[i].size = layout(called.callee.params[i].ty).size

\* A virtual call of three arguments, built where the stack's top was not
\* a multiple of 16.
C11_Witness ==
    /\ called.status = "done" /\ called.compiled /\ called.virtual
    /\ called.call.op = "CallPtr"
    /\ Len(called.copies) = 3
    /\ called.top_before % 16 # 0
    /\ called.call.frame > called.top_before

\* C12: lowering the base IR of a closure for a kind - Fn, FnMut or FnOnce -
\* yields an IR tagged with that kind, of the base's body and output, whose
\* signature inputs are (self, tuple of the base's inputs), self being a
\* shared reference to the env for Fn, a mutable one for FnMut and the env
\* by value for FnOnce, and whose parameters are a self pattern and a struct
\* pattern that binds field i of the tuple to the base's parameter i.
C12_EveryKindIsLowered ==
    (closure_res.status # "none" /\ closure_res.built /\ closure_res.base # <<>>) =>
        /\ closure_res.status = "returned"
        /\ LET base == closure_res.base[1]
               ir == closure_res.ir
               env == closure_res.self_ty
               self_ty == CASE closure_res.kind = "Fn" -> RefTy(env, "Const")
                            [] closure_res.kind = "FnMut" -> RefTy(env, "Mut")
                            [] closure_res.kind = "FnOnce" -> env
           IN /\ ir.closure_kind = <<closure_res.kind>>
              /\ ir.root_expr = base.root_expr
              /\ ir.sig.output = base.sig.output
              /\ ir.sig.inputs = <<self_ty, TupleTy(base.sig.inputs)>>
              /\ Len(ir.params) = 2
              /\ ir.params[1].ty = self_ty
              /\ ir.params[2].kind = "Struct"
              /\ ir.params[2].ty = TupleTy(base.sig.inputs)
              /\ Len(ir.params[2].fields) = Len(base.params)
              /\ \A i \in DOMAIN base.params :
                    /\ ir.params[2].fields[i].field = i - 1
                    /\ ir.params[2].fields[i].pattern = base.params[i]

\* C13: when WorkerResult::wait() has returned to the thread that was handed
\* the result, the worker has run the command's function and stored its
\* value (value is Some); and when it has returned inside
\* build_function_ir, the item's IR has been set.
C13_WaitReturnsAfterStore ==
    \A t \in Submitters :
        submitter[t].pc = "waited" =>
            /\ \E i \in DOMAIN executed : executed[i] = submitter[t].cmd
            /\ results[submitter[t].cmd].value = "Some"
            /\ sent[submitter[t].cmd].name = "build_function_ir" =>
                  item_ir[sent[submitter[t].cmd].item]

\* wait has returned from the barrier to a thread inside build_function_ir
\* that reached the barrier before the worker did, a later command waiting
\* in the channel.
C13_Witness ==
    \E t \in Submitters :
        /\ submitter[t].pc = "waited"
        /\ sent[submitter[t].cmd].name = "build_function_ir"
        /\ wk.pc = "blocked" /\ wk.cmd = submitter[t].cmd
        /\ chan # <<>>

\* The commands the worker has taken from the channel run one at a time and
\* in the order they were sent.
OneAtATimeInSendOrder ==
    /\ \A i \in DOMAIN executed : executed[i] = i
    /\ wk.pc = "call" => wk.cmd = Len(executed) + 1
    /\ wk.pc \in {"store", "barrier", "blocked"} => wk.cmd = Len(executed)

C15_BuiltAtMostOnce ==
    /\ builds.build_ir <= 1
    /\ builds.build_adt <= 1
    /\ \A o1, o2 \in observed : o1[1] = o2[1] => o1[2] = o2[2]

\* Two entries of the slot stack share no byte.
Disjoint(e1, e2) == e1.base + e1.size <= e2.base \/ e2.base + e2.size <= e1.base

\* C16: after any sequence of alloc, align_for_call and LIFO
\* push_scope/pop_scope, the slot alloc(type) returned is the smallest
\* multiple of the type's alignment not below the previous top and the top
\* is then base + size, align_for_call returned a multiple of 16, and the
\* recorded (base, size) entries are pairwise disjoint and lie below top.
C16_SlotStackInvariant ==
    /\ cs_last.op = "alloc" =>
          /\ cs_last.slot % layout(cs_last.ty).align = 0
          /\ cs_last.slot >= cs_last.prev_top
          /\ cs_last.slot - cs_last.prev_top < layout(cs_last.ty).align
          /\ cs.stack.top = cs_last.slot + layout(cs_last.ty).size
    /\ cs_last.op = "align_for_call" => cs_last.slot % 16 = 0
    /\ \A i, j \in DOMAIN cs.stack.entries :
          i # j => Disjoint(cs.stack.entries[i], cs.stack.entries[j])
    /\ \A i \in DOMAIN cs.stack.entries :
          cs.stack.entries[i].base + cs.stack.entries[i].size <= cs.stack.top

\* An alloc that had to skip padding, after a scope was popped, with other
\* entries on the stack.
C16_Witness ==
    /\ cs_last.op = "alloc"
    /\ cs_last.slot > cs_last.prev_top
    /\ Len(cs.popped) >= 1
    /\ Len(cs.stack.entries) >= 2

\* C17: when a compilation has ended, on whatever path, every push_scope
\* of it has been matched by exactly one pop_scope, every pop took the
\* innermost open scope, and right after every pop_scope(h) the top and the
\* number of entries were those of the push_scope that produced h.
C17_EveryScopePopped ==
    comp.status # "none" =>
        /\ comp.scopes = <<>>
        /\ Len(comp.popped) = comp.pushes
        /\ \A i, j \in DOMAIN comp.popped : i # j => comp.popped[i] # comp.popped[j]
        /\ comp.lifo
        /\ comp.restored

\* The synthetic candidate of the last query, if its trait is builtin and the
\* structural rule gives one.
SyntheticCandidate ==
    IF trait_res.trait \in BuiltinTraitIds
    THEN find_candidate(trait_res.trait, trait_res.for_tys)
    ELSE <<>>

\* C18: if the trait is tagged as a builtin, find_trait_impl decides the
\* query from the synthetic candidate alone - the candidate if the
\* structural rule gives one, None if not - and never from the impl list.
C18_BuiltinDecidesAlone ==
    trait_res.trait \in BuiltinTraitIds =>
        IF SyntheticCandidate # <<>>
        THEN trait_res.res.tag = "Some" /\ trait_res.res.index = 0
        ELSE trait_res.res = None

\* C18, amended: a builtin trait's query is answered from the synthetic
\* candidate when the structural rule gives one that check_trait_impl
\* accepts; when it gives none the impl list is iterated, and the answer is
\* that of the loop over the list, as for a trait that is not builtin.
C18_SyntheticFirstThenList ==
    trait_res.trait \in BuiltinTraitIds =>
        IF SyntheticCandidate # <<>>
        THEN trait_res.res.tag = "Some" /\ trait_res.res.index = 0
        ELSE trait_res.res = find_trait_impl_from(trait_res.trait, trait_res.for_tys, 1)

\* A query of a builtin trait for which the structural rule gives no
\* candidate is answered by the second impl of the trait's list.
C18_Witness ==
    /\ trait_res.trait \in BuiltinTraitIds
    /\ SyntheticCandidate = <<>>
    /\ trait_res.res.tag = "Some"
    /\ trait_res.res.index = 2

\* The assignments of the parameters T0, T1 of a candidate type.
MatchAssignments == [1..2 -> MatchLhs \cup {IntTy, BoolTy}]

\* The assignment a SubMap records for the candidate's parameters, T where
\* it records nothing.
Recorded(map) == SubMap_apply_to(map, 1, "Rhs", from_summary(2))

\* C19: unification of a concrete receiver type L with a candidate type R
\* returns true exactly when some assignment of R's parameters makes R
\* equal to L, the map then recording for each parameter of R the sub-term
\* of L it stands for; in every other case it returns false, and it never
\* fails fatally.
C19_MatchIsUnification ==
    match_res.status = "done" =>
        /\ ~match_res.res.panic
        /\ match_res.res.ok <=>
              \E a \in MatchAssignments : ty_sub(match_res.rhs, a) = match_res.lhs
        /\ match_res.res.ok =>
              ty_sub(match_res.rhs, Recorded(match_res.res.map)) = match_res.lhs

\* The direct sub-patterns of a Struct, Slice or Or pattern.
SubPatterns(pat) ==
    CASE pat.kind = "Struct" -> {pat.fields[i].pattern : i \in DOMAIN pat.fields}
      [] pat.kind = "Or" -> {pat.options[i] : i \in DOMAIN pat.options}
      [] pat.kind = "Slice" ->
            {pat.start[i] : i \in DOMAIN pat.start} \cup {pat.mid[i] : i \in DOMAIN pat.mid}
                \cup {pat.end[i] : i \in DOMAIN pat.end}
      [] OTHER -> {}

\* match_pattern_internal has returned the flag for the pattern p.
FlagReturned(p, flag) == \E i \in DOMAIN matched.flags : matched.flags[i] = <<p, flag>>

AlwaysRefutable == {"LiteralValue", "NamedConst", "LiteralBytes", "Range", "Enum"}

C30_SelfTypeOfThisCall ==
    closure_res.status = "returned" =>
        /\ closure_res.ir.sig.inputs[1] =
                CASE closure_res.kind = "Fn" -> RefTy(closure_res.self_ty, "Const")
                  [] closure_res.kind = "FnMut" -> RefTy(closure_res.self_ty, "Mut")
                  [] closure_res.kind = "FnOnce" -> closure_res.self_ty
        /\ closure[ir_field(closure_res.kind)] = <<closure_res.ir>>


\* C25: for the same item and the same path indices child_closure returns
\* the closure of the same unique id on every call, and different path
\* indices or different items give closures of different unique ids.
C25_SameClosureSamePath ==
    \A i, j \in DOMAIN child_calls :
        (child_calls[i].item = child_calls[j].item /\ child_calls[i].path = child_calls[j].path)
            <=> child_calls[i].closure = child_calls[j].closure

\* The part of C25 that holds of function items.
C25_FunctionsOnly ==
    \A i, j \in DOMAIN child_calls :
        child_calls[i].item # 3 /\ child_calls[j].item # 3 =>
            ((child_calls[i].item = child_calls[j].item
                    /\ child_calls[i].path = child_calls[j].path)
                <=> child_calls[i].closure = child_calls[j].closure)

\* Every substitution list of every constant has been evaluated at most
\* once, and every call has returned the bytes kept for its list.
ConstOnceAndSame ==
    /\ \A i, j \in DOMAIN const_evals : const_evals[i] = const_evals[j] => i = j
    /\ \A i \in DOMAIN const_returns :
          <<const_returns[i][2], const_returns[i][3]>> \in mono_values[const_returns[i][1]]
    /\ \A it \in ConstItems : \A e1, e2 \in mono_values[it] : e1[1] = e2[1] => e1 = e2

\* C29: const_value evaluates the constant for each substitution list at
\* most once and returns the same bytes on every call, and no call is stuck
\* or fails on the mutex of its own item, also when the evaluation for one
\* list asks for the value of the same item at another list.
C29_OnceAndNeverStuckOnOwnLock ==
    /\ ConstOnceAndSame
    /\ \A t \in ConstThreads : const_thread[t].status \notin {"deadlock", "panic"}

\* A slice pattern has been matched against the slice behind s.
SliceMatched ==
    /\ matched.status = "done"
    /\ matched.pat.kind = "DeRef" /\ matched.pat.sub_pattern.kind = "Slice"

\* The code of a slice pattern with p start and n end elements: the length
\* check compares p + n with the length word of the fat pointer, with ==
\* when there is no middle and <= otherwise; the start element i is read at
\* i * elem_size from the base pointer; the end element k is read at
\* (k - n) * elem_size from the end pointer.
SliceCodeAsSpecified ==
    LET pat == matched.pat.sub_pattern
        p == Len(pat.start)
        n == Len(pat.end)
        bc == matched.out_bc
        elem_size == layout(pat.ty[2]).size
        lits(elems) == {i \in DOMAIN elems : elems[i].kind = "LiteralValue"}
    IN /\ (p + n > 0 \/ pat.mid = <<>>) =>
            /\ Len(bc) >= 2
            /\ bc[1].op = "Const" /\ bc[1].val = p + n
            /\ bc[2].op = (IF pat.mid = <<>> THEN "Eq" ELSE "LtEq")
            /\ bc[2].dst = matched.result_slot
            /\ bc[2].lhs = bc[1].dst
            /\ bc[2].rhs = matched.source + POINTER_SIZE
       /\ \A i \in lits(pat.start) :
            \E j \in DOMAIN bc :
                /\ bc[j].op = "MovFromPtr" /\ bc[j].ptr = matched.source
                /\ bc[j].offset = (i - 1) * elem_size
       /\ \A k \in lits(pat.end) :
            \E e, j \in DOMAIN bc :
                /\ e < j
                /\ bc[e].op = "IndexCalcEndPointer" /\ bc[e].slice = matched.source
                /\ bc[e].elem_size = elem_size
                /\ bc[j].op = "MovFromPtr" /\ bc[j].ptr = bc[e].dst
                /\ bc[j].offset = ((k - 1) - n) * elem_size

\* Whenever a slice pattern compiles, its code is as specified.
SliceCodeWhenCompiled == SliceMatched /\ matched.compiled => SliceCodeAsSpecified

\* C24: for a slice pattern on a slice with p prefix and n suffix
\* sub-patterns the length check is == p + n without a middle and >= p + n
\* with one, prefix i is matched at i * elem_size from the base pointer and
\* suffix k at (k - n) * elem_size from the end pointer, and that negative
\* offset is computed without integer underflow or overflow.
C24_SliceOffsetsWithoutOverflow ==
    SliceMatched =>
        /\ matched.panic # "panic: attempt to subtract with overflow"
        /\ matched.compiled => SliceCodeAsSpecified

\* The entries of the log of the compilation.
LogOf(kind) == {i \in DOMAIN flow_comp.log : flow_comp.log[i].kind = kind}
LogLoops(loop_id) ==
    {flow_comp.log[i] : i \in {j \in LogOf("loop") : flow_comp.log[j].loop_id = loop_id}}

\* The index a jump at index i of the emitted code transfers control to.
JumpTarget(i) == i + flow_comp.out_bc[i + 1].offset

BreakPatched(b, L) ==
    /\ L.start_index <= b.index /\ b.index < L.end_index
    /\ flow_comp.out_bc[b.index + 1].op = "Jump"
    /\ JumpTarget(b.index) = L.end_index + 1
    /\ JumpTarget(b.index) > b.index
    /\ b.value_dst \in {<<>>, <<L.result_slot>>}

ContinueJumps(k, L) ==
    /\ L.start_index <= k.index /\ k.index < L.end_index
    /\ flow_comp.out_bc[k.index + 1].op = "Jump"
    /\ JumpTarget(k.index) = L.start_index

LoopClosed(L) ==
    /\ flow_comp.out_bc[L.end_index + 1].op = "Jump"
    /\ JumpTarget(L.end_index) = L.start_index
    /\ L.depth_after = L.depth_before
    /\ \A i \in DOMAIN L.breaks_left : L.breaks_left[i].loop_id # L.loop_id

\* C22: for every loop L of a compiled function, nested ones included, each
\* Break of L is a forward jump to the instruction right after L's closing
\* back-jump and its value, if any, was lowered into L's result slot; each
\* Continue of L and L's closing back-jump lead to L's start index; and
\* when L has been lowered the loop stack is as deep as before and no break
\* of L is left unpatched.
C22_LoopsPatched ==
    Ok(flow_comp) =>
        /\ \A i \in LogOf("loop") : LoopClosed(flow_comp.log[i])
        /\ \A i \in LogOf("break") :
              /\ Cardinality(LogLoops(flow_comp.log[i].loop_id)) = 1
              /\ \A L \in LogLoops(flow_comp.log[i].loop_id) :
                    BreakPatched(flow_comp.log[i], L)
        /\ \A i \in LogOf("continue") :
              /\ Cardinality(LogLoops(flow_comp.log[i].loop_id)) = 1
              /\ \A L \in LogLoops(flow_comp.log[i].loop_id) :
                    ContinueJumps(flow_comp.log[i], L)
        /\ flow_comp.loops = <<>> /\ flow_comp.loop_breaks = <<>>

\* A nested loop whose inner loop breaks out of the outer one with a value
\* and continues the outer one, run to its Return.
C22_Witness ==
    /\ Ok(flow_comp)
    /\ Cardinality(LogOf("loop")) = 2
    /\ \E i \in LogOf("break"), j \in LogOf("continue") :
          /\ flow_comp.log[i].loop_id = 1 /\ flow_comp.log[i].value_dst # <<>>
          /\ flow_comp.log[j].loop_id = 1
          /\ flow_comp.log[i].index \in flow_vm.visited
    /\ flow_vm.status = "returned"
\* Whether a value matches a pattern, by the rules of the source language:
\* a value is an integer or a tuple of values.
RECURSIVE PatternMatches(_, _)
PatternMatches(pat, v) ==
    CASE pat.kind = "LiteralValue" -> v = pat.n
      [] pat.kind \in {"Hole", "LocalBinding"} -> TRUE
      [] pat.kind = "Or" ->
            \E i \in DOMAIN pat.options : PatternMatches(pat.options[i], v)
      [] pat.kind = "Struct" ->
            \A i \in DOMAIN pat.fields :
                PatternMatches(pat.fields[i].pattern, v[pat.fields[i].field + 1])

\* The value of an argument expression or of a guard of the catalog under
\* the arguments of the call.
ValueOf(e, args) ==
    CASE e = P0 -> args[1]
      [] e = P1 -> args[2]
      [] e = P0Lt2 -> args[1] < 2

ArmSucceeds(arm, scrutinee, args) ==
    /\ PatternMatches(arm.pattern, scrutinee)
    /\ arm.guard # <<>> => ValueOf(arm.guard[1], args)

\* The arm a match takes: the first whose pattern and guard succeed.
FirstArm(e, args) ==
    CHOOSE i \in DOMAIN e.arms :
        /\ ArmSucceeds(e.arms[i], ValueOf(e.arg, args), args)
        /\ \A j \in 1..(i - 1) : ~ArmSucceeds(e.arms[j], ValueOf(e.arg, args), args)

ArmLog(i) == flow_comp.log[CHOOSE j \in LogOf("arm") : flow_comp.log[j].arm = i]
BodyRan(i) == \E pc \in flow_vm.visited : ArmLog(i).body_start <= pc /\ pc < ArmLog(i).body_end
MatchEnd == ArmLog(Len(flow_ir.root_expr.arms)).body_end + 1

\* The jumps of the arms: a failed check or guard leads to the start of the
\* next arm, the end of a body past all arms.
ArmJumps(i) ==
    /\ flow_comp.out_bc[ArmLog(i).check_end + 1].op = "JumpF"
    /\ JumpTarget(ArmLog(i).check_end) = ArmLog(i).body_end + 1
    /\ flow_comp.out_bc[ArmLog(i).body_end + 1].op = "Jump"
    /\ JumpTarget(ArmLog(i).body_end) = MatchEnd

MatchReturned == flow_ir.root_expr.kind = "Match" /\ flow_vm.status = "returned"

\* The jumps are as specified, and some arm body at most runs.
MatchJumpsAsSpecified ==
    (flow_ir.root_expr.kind = "Match" /\ Ok(flow_comp)) =>
        /\ \A i \in DOMAIN flow_ir.root_expr.arms : ArmJumps(i)
        /\ \A i, j \in DOMAIN flow_ir.root_expr.arms : BodyRan(i) /\ BodyRan(j) => i = j

\* C21: the code of a match runs the body of the first arm whose pattern
\* and guard both succeed and of no other arm, leaves that body's value in
\* the match destination, and its jumps lead from a failed check or guard
\* to the next arm and from the end of a body past the remaining arms.
C21_FirstMatchingArmRuns ==
    /\ MatchJumpsAsSpecified
    /\ MatchReturned =>
          /\ \A i \in DOMAIN flow_ir.root_expr.arms :
                BodyRan(i) <=> i = FirstArm(flow_ir.root_expr, flow_vm.args)
          /\ read_stack(flow_vm.mem, 0, 4) =
                const_bytes(flow_ir.root_expr.arms[FirstArm(flow_ir.root_expr,
                                                            flow_vm.args)].body.n, 4)
\* The patterns with an irrefutable option in an or-pattern below a field.
RECURSIVE HasIrrefutableOption(_)
HasIrrefutableOption(pat) ==
    CASE pat.kind = "Or" ->
            \E i \in DOMAIN pat.options : pat.options[i].kind \in {"Hole", "LocalBinding"}
      [] pat.kind = "Struct" ->
            \E i \in DOMAIN pat.fields : HasIrrefutableOption(pat.fields[i].pattern)
      [] OTHER -> FALSE

\* Apart from those patterns the first arm that succeeds is the one that
\* runs.
FirstMatchingArmOtherwise ==
    (MatchReturned /\ \A i \in DOMAIN flow_ir.root_expr.arms :
                         ~HasIrrefutableOption(flow_ir.root_expr.arms[i].pattern)) =>
          /\ \A i \in DOMAIN flow_ir.root_expr.arms :
                BodyRan(i) <=> i = FirstArm(flow_ir.root_expr, flow_vm.args)
          /\ read_stack(flow_vm.mem, 0, 4) =
                const_bytes(flow_ir.root_expr.arms[FirstArm(flow_ir.root_expr,
                                                            flow_vm.args)].body.n, 4)
\* The indices of the jumps of the compiled code.
Jumps == {i \in 0..(Len(flow_comp.out_bc) - 1) :
            flow_comp.out_bc[i + 1].op \in {"Jump", "JumpF", "JumpT"}}

IsCallField == flow_ir.root_expr.kind = "Field" /\ flow_ir.root_expr.lhs.kind = "Call"
CallArgs == flow_ir.root_expr.lhs.args
\* The value of a first argument when it is evaluated, under the arguments
\* of the function.
FirstArgValue(e, args) ==
    IF e = E_Field(P1, 0, IntTy) THEN args[2][1] ELSE args[1]
\* The field of the struct holds the argument of its position.
CallFieldAsEvaluated ==
    flow_vm.status = "returned" =>
        read_stack(flow_vm.mem, 0, 4) =
            const_bytes(IF flow_ir.root_expr.field = 0
                        THEN FirstArgValue(CallArgs[1], flow_vm.args) ELSE 1, 4)

\* C26: the value copied into argument position i of a call is the value
\* argument i had when it was evaluated, the arguments being evaluated from
\* left to right, also when a later argument assigns to a local variable
\* that argument i reads.
C26_ArgumentKeepsItsValue == IsCallField => (Ok(flow_comp) /\ CallFieldAsEvaluated)

\* The later argument assigns to the very place the first argument is.
LaterAssignsFirst ==
    /\ CallArgs[2].kind = "Block"
    /\ CallArgs[2].stmts[1].expr.lhs = CallArgs[1]

\* It is so whenever the first argument is not a place that the later
\* argument assigns to.
ArgumentKeepsItsValueOtherwise ==
    (IsCallField /\ ~LaterAssignsFirst) => (Ok(flow_comp) /\ CallFieldAsEvaluated)

\* A call whose later argument assigns to p0, read by the first argument
\* p0 + 0, has returned.
CallWithAssignmentReturned ==
    /\ IsCallField /\ flow_vm.status = "returned"
    /\ CallArgs[1].kind = "Binary" /\ CallArgs[2] = AssignThen1(P0)
    /\ flow_ir.root_expr.field = 0

\* The function binds the references p and q, both live to its end.
IsRefBlock ==
    /\ flow_ir.root_expr.kind = "Block"
    /\ Len(flow_ir.root_expr.stmts) >= 2
    /\ flow_ir.root_expr.stmts[2].kind = "Let"
    /\ flow_ir.root_expr.stmts[2].pattern.ty = IntRefTy
\* The slot of a local of the compiled function.
SlotOf(local) ==
    LET i == CHOOSE j \in DOMAIN flow_comp.locals : flow_comp.locals[j][1] = local
    IN flow_comp.locals[i][2]
\* Distinct locals have distinct slots.
LocalsApart ==
    \A i, j \in DOMAIN flow_comp.locals :
        flow_comp.locals[i][1] # flow_comp.locals[j][1] =>
            flow_comp.locals[i][2] # flow_comp.locals[j][2]
\* q points to p0, whatever was assigned to p after q was bound.
QUnchanged ==
    flow_vm.status = "returned" =>
        read_stack(flow_vm.mem, 0, 4) = const_bytes(flow_vm.args[1], 4)

\* C28: two distinct locals that are live at the same time never share a
\* stack slot; for `let q = &*p`, q has storage distinct from p, and an
\* assignment to p afterwards does not change q.
C28_LocalsNeverShareASlot ==
    IsRefBlock => (Ok(flow_comp) /\ LocalsApart /\ QUnchanged)

\* It is so for every initialiser but the reference to the place *p.
LocalsApartOtherwise ==
    (IsRefBlock /\ flow_ir.root_expr.stmts[2].init # Reborrow) =>
        (Ok(flow_comp) /\ LocalsApart /\ QUnchanged)

\* A function with `let q = p` and a later assignment to p has returned.
RefBlockReturned ==
    /\ IsRefBlock /\ flow_ir.root_expr.stmts[2].init = RefP
    /\ Len(flow_ir.root_expr.stmts) = 3
    /\ flow_vm.status = "returned"

\* The function is an enum literal followed by a match on an enum pattern.
IsEnumTrip ==
    /\ flow_ir.root_expr.kind = "Block"
    /\ Len(flow_ir.root_expr.stmts) = 1
    /\ flow_ir.root_expr.stmts[1].kind = "Let"
    /\ flow_ir.root_expr.stmts[1].init.kind = "Adt"
    /\ flow_ir.root_expr.stmts[1].init.ty[2] \in Enums
TripEnum == flow_ir.root_expr.stmts[1].init.ty[2]
TripLiteral == flow_ir.root_expr.stmts[1].init.variant
TripPattern == flow_ir.root_expr.result[1].arms[1].pattern.variant_index
\* What the match gives: the field the literal wrote, 10 for None, or 30
\* from the second arm when the variants differ.
TripResult ==
    IF TripLiteral # TripPattern THEN 30
    ELSE IF TripPattern = 1 THEN flow_vm.args[1] ELSE 10
TripAsClaimed ==
    /\ Ok(flow_comp)
    /\ flow_vm.status \in {"idle", "running", "returned"}
    /\ flow_vm.status = "returned" =>
            read_stack(flow_vm.mem, 0, 4) = const_bytes(TripResult, 4)

\* C23: for an enum of either layout and variants v and w, the literal of v
\* followed by a match on the pattern of w compiles, and the match succeeds
\* exactly when v = w, the pattern reading the field where the literal
\* wrote it.
C23_LiteralThenPattern == IsEnumTrip => TripAsClaimed

\* It is so for the enum with a leading discriminant, and for the pattern of
\* the variant of the niche-encoded enum that has a discriminant value.
LiteralThenPatternWithValue ==
    (IsEnumTrip /\ enum_info(TripEnum).discriminants[TripPattern + 1] # <<>>) => TripAsClaimed

\* The literal of Some followed by the pattern of Some has run to its end.
TripOfSomeReturned ==
    /\ IsEnumTrip /\ TripEnum = "Opt" /\ TripLiteral = 1 /\ TripPattern = 1
    /\ flow_vm.status = "returned"
====
